---------------------------- MODULE Spec2Model ----------------------------
(***************************************************************************)
(* A model of tachyfont.BinaryFontEditor (binaryfonteditor.js): the binary *)
(* cursor over a DataView, the offset and side-bearing accessors, the      *)
(* group-of-segments (GOS) decoder, the compact-cmap (CCMP) reconstruction *)
(* and the base-font header parser.                                        *)
(*                                                                         *)
(* Numbers.  A JavaScript number holds every uint32 exactly; the integers  *)
(* of the model checker are 32-bit signed.  A uint32 that is only stored   *)
(* or compared is therefore kept as a Word, two 16-bit halves [hi, lo];    *)
(* Num turns a Word below 2^31 into an integer where the code does         *)
(* arithmetic on it.  The bit operators of the code (&, |, <<, >>, >>>)    *)
(* are written with \div and % on the operand ranges they act on.          *)
(***************************************************************************)
EXTENDS Integers, Sequences, FiniteSets, TLC

VARIABLES
  editor,   \* the BinaryFontEditor: [dataView_, baseOffset_, offset_]
  pc,       \* the position of the running operation
  log,      \* the cursor operations performed so far, with their outcomes
  hdr,      \* the locals of parseBaseHeader
  gos,      \* the locals of readNextGOS
  ccmp      \* the locals of readOps.CCMP

vars == <<editor, pc, log, hdr, gos, ccmp>>

\* A variable a specification does not use.
Unused == [unused |-> TRUE]

-----------------------------------------------------------------------------
(* Bounds of the model.                                                    *)

\* Length in bytes of the DataView of the cursor specifications.
BufLen == 7

\* Number of cursor operations in one run of a cursor specification.
MaxOps == 3

-----------------------------------------------------------------------------
(* Words and bytes.                                                        *)

Word(h, l) == [hi |-> h, lo |-> l]

\* The integer a Word stands for; used only where hi < 2^15.
Num(w) == w.hi * 65536 + w.lo

\* The Word of a non-negative integer.
ToWord(n) == Word(n \div 65536, n % 65536)

\* Whether the n bytes at address a lie inside the DataView dv.  A DataView
\* access outside throws a RangeError.
InView(dv, a, n) == a >= 0 /\ a + n <= Len(dv)

\* The byte of dv at address a (addresses count from 0).
ByteAt(dv, a) == IF InView(dv, a, 1) THEN dv[a + 1] ELSE 0

\* dv with the bytes bs stored from address a on.
Store(dv, a, bs) ==
  [k \in 1..Len(dv) |->
     IF k - 1 >= a /\ k - 1 < a + Len(bs) THEN bs[k - a] ELSE dv[k]]

\* DataView.getUint16 / getUint32 / getInt32: big endian.
ViewUint16(dv, a) == ByteAt(dv, a) * 256 + ByteAt(dv, a + 1)

ViewUint32(dv, a) == Word(ViewUint16(dv, a), ViewUint16(dv, a + 2))

ViewInt32(dv, a) ==
  LET b0 == ByteAt(dv, a)
      top == IF b0 >= 128 THEN b0 - 256 ELSE b0
  IN  top * 16777216 + ByteAt(dv, a + 1) * 65536 + ViewUint16(dv, a + 2)

\* The two bytes DataView.setUint16 / setInt16 store for the number d
\* (ToUint16: d modulo 2^16, so a negative d is stored in two's complement).
Bytes16(d) == <<(d % 65536) \div 256, d % 256>>

\* The four bytes DataView.setUint32 stores for the Word w.
Bytes32(w) == Bytes16(w.hi) \o Bytes16(w.lo)

-----------------------------------------------------------------------------
(* The cursor: each operation maps an editor to                            *)
(*   [editor: the editor afterwards, data: the value returned,             *)
(*    at: the DataView address accessed (-1: none), thrown: the exception] *)
(* An operation that throws leaves the editor as it was.                   *)

NewEditor(dataView, baseOffset) ==
  [dataView_ |-> dataView, baseOffset_ |-> baseOffset, offset_ |-> 0]

Outcome(e, d, a, t) == [editor |-> e, data |-> d, at |-> a, thrown |-> t]

\* A read of n bytes at the cursor that returns d.
ReadAt(e, n, d) ==
  LET a == e.baseOffset_ + e.offset_
  IN  IF InView(e.dataView_, a, n)
      THEN Outcome([e EXCEPT !.offset_ = @ + n], d, a, "")
      ELSE Outcome(e, 0, a, "RangeError")

\* A write of the bytes bs at the cursor.
WriteAt(e, bs) ==
  LET a == e.baseOffset_ + e.offset_
  IN  IF InView(e.dataView_, a, Len(bs))
      THEN Outcome([e EXCEPT !.dataView_ = Store(@, a, bs),
                             !.offset_ = @ + Len(bs)], 0, a, "")
      ELSE Outcome(e, 0, a, "RangeError")

getUint8(e) == ReadAt(e, 1, ByteAt(e.dataView_, e.baseOffset_ + e.offset_))

setUint8(e, data) == WriteAt(e, <<data % 256>>)

\* getUint16 with the cursor advanced by one byte only.
MutGetUint16(e) ==
  ReadAt(e, 1, ViewUint16(e.dataView_, e.baseOffset_ + e.offset_))

getUint16(e) ==
  ReadAt(e, 2, ViewUint16(e.dataView_, e.baseOffset_ + e.offset_))

setUint16(e, data) == WriteAt(e, Bytes16(data))

setInt16(e, data) == WriteAt(e, Bytes16(data))

getUint32(e) ==
  ReadAt(e, 4, ViewUint32(e.dataView_, e.baseOffset_ + e.offset_))

setUint32(e, data) == WriteAt(e, Bytes32(data))

getInt32_(e) ==
  ReadAt(e, 4, ViewInt32(e.dataView_, e.baseOffset_ + e.offset_))

seek(e, newOffset) == Outcome([e EXCEPT !.offset_ = newOffset], 0, -1, "")

skip(e, len) ==
  IF len < 0
  THEN Outcome(e, 0, -1, "Only nonnegative numbers are accepted")
  ELSE Outcome([e EXCEPT !.offset_ = @ + len], 0, -1, "")

tell(e) == Outcome(e, e.offset_, -1, "")

\* readString: the char codes of the string, one getUint8 each.
RECURSIVE ReadChars(_, _, _)
ReadChars(e, length, str) ==
  IF length <= 0 THEN Outcome(e, str, -1, "")
  ELSE LET r == getUint8(e)
       IN  IF r.thrown # "" THEN Outcome(r.editor, <<>>, r.at, r.thrown)
           ELSE ReadChars(r.editor, length - 1, Append(str, r.data))

readString(e, length) == ReadChars(e, length, <<>>)

\* value << 8 and value >>> 8 on a Word below 2^24 resp. 2^32.
ShiftLeft8(w) == Word(w.hi * 256 + w.lo \div 256, (w.lo % 256) * 256)

\* value >> 8 taken on the low 16 bits only.
MutShiftRight8(w) == Word(0, w.lo \div 256)

ShiftRight8(w) == Word(w.hi \div 256, (w.hi % 256) * 256 + w.lo \div 256)

\* getElementOffset: the offset is returned as a Word.
getElementOffset(e, offSize) ==
  CASE offSize = 1 ->
         LET r == getUint8(e)
         IN  Outcome(r.editor, Word(0, r.data), r.at, r.thrown)
    [] offSize = 2 ->
         LET r == getUint16(e)
         IN  Outcome(r.editor, Word(0, r.data), r.at, r.thrown)
    [] offSize = 3 ->
         LET r1 == getUint16(e)
             hi16 == ShiftLeft8(Word(0, r1.data))
             r2 == getUint8(r1.editor)
         IN  IF r1.thrown # "" THEN Outcome(e, Word(0, 0), r1.at, r1.thrown)
             ELSE IF r2.thrown # ""
             THEN Outcome(r1.editor, Word(0, 0), r2.at, r2.thrown)
             ELSE Outcome(r2.editor, Word(hi16.hi, hi16.lo + r2.data),
                          r1.at, "")
    [] offSize = 4 -> getUint32(e)
    [] OTHER -> Outcome(e, Word(0, 0), -1, "invalid offset size")

\* setOffset: value is a Word.  setUint8 and setUint16 keep the low 8 resp.
\* 16 bits of the number they are given, which are bits of value.lo.
setOffset(e, offSize, value) ==
  CASE offSize = 1 -> setUint8(e, value.lo)
    [] offSize = 2 -> setUint16(e, value.lo)
    [] offSize = 3 ->
         LET r1 == setUint16(e, ShiftRight8(value).lo)
             r2 == setUint8(r1.editor, value.lo % 256)
         IN  IF r1.thrown # "" THEN r1
             ELSE Outcome(r2.editor, 0, r1.at, r2.thrown)
    [] offSize = 4 -> setUint32(e, value)
    [] OTHER -> Outcome(e, 0, -1, "")

\* setMtxSideBearing with every glyph treated as a full 4-byte metric.
MutSetMtxSideBearing(e, start, metricCount, gid, value) ==
  setInt16(seek(e, start + gid * 4 + 2).editor, value)

setMtxSideBearing(e, start, metricCount, gid, value) ==
  IF gid < metricCount
  THEN setInt16(seek(e, start + gid * 4 + 2).editor, value)
  ELSE setInt16(seek(e, start + 2 * gid + 2 * metricCount).editor, value)

getGlyphDataOffset(e, start, offSize, gid) ==
  getElementOffset(seek(e, start + gid * offSize).editor, offSize)

setGlyphDataOffset(e, start, offSize, gid, value) ==
  setOffset(seek(e, start + gid * offSize).editor, offSize, value)

-----------------------------------------------------------------------------
(* Cursor specifications: a caller performs up to MaxOps operations on one *)
(* editor.  Every operation is logged: its name and arguments, the editor  *)
(* before (prior) and after (post) and its outcome.                        *)

\* The initial bytes of a DataView of n bytes (all different, some >= 0x80).
InitBytes(n) == [k \in 1..n |-> (k * 113 + 16) % 256]

Entry(name, arg, r) ==
  [op |-> name, arg |-> arg, prior |-> editor, post |-> r.editor,
   data |-> r.data, at |-> r.at, thrown |-> r.thrown]

\* Perform one operation with outcome r.
Perform(name, arg, r) ==
  /\ pc = "cursor"
  /\ Len(log) < MaxOps
  /\ editor' = r.editor
  /\ log' = Append(log, Entry(name, arg, r))
  /\ UNCHANGED <<pc, hdr, gos, ccmp>>

InitCursor ==
  /\ \E baseOffset \in {0, 1} :
       editor = NewEditor(InitBytes(BufLen), baseOffset)
  /\ pc = "cursor"
  /\ log = <<>>
  /\ hdr = Unused /\ gos = Unused /\ ccmp = Unused

\* Arguments the callers pass.
Data8 == {127, 511}
Data16 == {4660, 109517}
DataInt16 == {-2, 4660}
Data32 == {Word(57005, 48879), Word(0, 1)}
SeekTargets == {-1, 0, 3, BufLen}
SkipLens == {-1, 0, 2}

GetUint8 == Perform("getUint8", 0, getUint8(editor))

SetUint8 == \E d \in Data8 : Perform("setUint8", d, setUint8(editor, d))

GetUint16 == Perform("getUint16", 0, getUint16(editor))

SetUint16 == \E d \in Data16 : Perform("setUint16", d, setUint16(editor, d))

SetInt16 == \E d \in DataInt16 : Perform("setInt16", d, setInt16(editor, d))

GetUint32 == Perform("getUint32", 0, getUint32(editor))

SetUint32 == \E d \in Data32 : Perform("setUint32", d, setUint32(editor, d))

GetInt32_ == Perform("getInt32_", 0, getInt32_(editor))

Seek == \E n \in SeekTargets : Perform("seek", n, seek(editor, n))

Skip == \E n \in SkipLens : Perform("skip", n, skip(editor, n))

Tell == Perform("tell", 0, tell(editor))

NextCursor ==
  \/ GetUint8 \/ SetUint8 \/ GetUint16 \/ SetUint16 \/ SetInt16
  \/ GetUint32 \/ SetUint32 \/ GetInt32_ \/ Seek \/ Skip \/ Tell

SpecCursor == InitCursor /\ [][NextCursor]_vars

\* The byte width of the fixed-width accessors.
Width(op) ==
  CASE op \in {"getUint8", "setUint8"} -> 1
    [] op \in {"getUint16", "setUint16", "setInt16"} -> 2
    [] op \in {"getUint32", "setUint32", "getInt32_"} -> 4
    [] OTHER -> 0

Accessors ==
  {"getUint8", "setUint8", "getUint16", "setUint16", "setInt16",
   "getUint32", "setUint32", "getInt32_"}

Setters == {"setUint8", "setUint16", "setInt16", "setUint32"}

\* The bytes of dv outside [a, a + n) are those of dv0.
SameOutside(dv, dv0, a, n) ==
  /\ Len(dv) = Len(dv0)
  /\ \A k \in 1..Len(dv) : (k - 1 < a \/ k - 1 >= a + n) => dv[k] = dv0[k]

\* C7 for one logged operation l.
AdvancesByWidth(l) ==
  /\ (l.op \in Accessors /\ l.thrown = "") =>
        /\ l.post.offset_ = l.prior.offset_ + Width(l.op)
        /\ l.at = l.prior.baseOffset_ + l.prior.offset_
        /\ SameOutside(l.post.dataView_, l.prior.dataView_,
                       l.prior.baseOffset_ + l.prior.offset_,
                       IF l.op \in Setters THEN Width(l.op) ELSE 0)
        /\ LET a == l.prior.baseOffset_ + l.prior.offset_
               old == l.prior.dataView_
               new == l.post.dataView_
           IN  /\ l.op = "getUint8" => l.data = old[a + 1]
               /\ l.op = "getUint16" => l.data = old[a + 1] * 256 + old[a + 2]
               /\ l.op = "getUint32" =>
                     /\ l.data.hi = old[a + 1] * 256 + old[a + 2]
                     /\ l.data.lo = old[a + 3] * 256 + old[a + 4]
               /\ l.op = "setUint8" => new[a + 1] = l.arg % 256
               /\ l.op \in {"setUint16", "setInt16"} =>
                     new[a + 1] * 256 + new[a + 2] = l.arg % 65536
               /\ l.op = "setUint32" =>
                     /\ new[a + 1] * 256 + new[a + 2] = l.arg.hi
                     /\ new[a + 3] * 256 + new[a + 4] = l.arg.lo
  /\ (l.op = "skip" /\ l.arg >= 0) =>
        l.thrown = "" /\ l.post.offset_ = l.prior.offset_ + l.arg
  /\ (l.op = "skip" /\ l.arg < 0) => l.thrown # "" /\ l.post = l.prior
  /\ l.op = "seek" => l.post.offset_ = l.arg
  /\ (l.op # "seek" /\ l.op # "skip") =>
        l.post.offset_ - l.prior.offset_ \in {0, Width(l.op)}
  /\ l.thrown # "" => l.post = l.prior

\* C7: every successful fixed-width accessor moves tell() by exactly its
\* byte width and accesses the DataView at baseOffset_ + the prior tell();
\* skip(len) with len >= 0 moves tell() by len and a negative len throws;
\* no operation but seek sets the offset to a value of the caller's choice.
CursorAdvancement ==
  pc = "cursor" => \A k \in 1..Len(log) : AdvancesByWidth(log[k])

\* C7 witness: a refused negative skip, a skip of 2 and then a 4-byte read
\* that succeeded away from offset 0 on an editor with a base offset.
CursorAdvancementWitness ==
  /\ pc = "cursor" /\ Len(log) = 3
  /\ log[1].op = "skip" /\ log[1].arg < 0 /\ log[1].thrown # ""
  /\ log[2].op = "skip" /\ log[2].arg = 2
  /\ log[3].op = "getUint32" /\ log[3].thrown = ""
  /\ log[3].prior.baseOffset_ = 1 /\ log[3].post.offset_ = 6
  /\ log[3].at = 3

-----------------------------------------------------------------------------
(* Offsets: setOffset, seek and getElementOffset on one editor.            *)

\* The (offSize, value) pairs written: the extremes of every width, values
\* with all bytes different, values too large for the width, and the
\* widths 0 and 5 that the switch statements do not list.
OffsetArgs ==
  {<<1, Word(0, 0)>>, <<1, Word(0, 255)>>, <<1, Word(0, 263)>>,
   <<2, Word(0, 65535)>>, <<2, Word(0, 4660)>>, <<2, Word(1, 2)>>,
   <<3, Word(255, 65535)>>, <<3, Word(18, 13398)>>, <<3, Word(128, 0)>>,
   <<3, Word(256, 5)>>,
   <<4, Word(65535, 65535)>>, <<4, Word(32768, 0)>>, <<4, Word(4660, 22136)>>,
   <<0, Word(0, 1)>>, <<5, Word(0, 1)>>}

OffsetSizes == 0..5

OffsetSeekTargets == {0, 1, 3}

SetOffset ==
  \E a \in OffsetArgs : Perform("setOffset", a, setOffset(editor, a[1], a[2]))

GetElementOffset ==
  \E w \in OffsetSizes :
    Perform("getElementOffset", w, getElementOffset(editor, w))

SeekOffset == \E n \in OffsetSeekTargets : Perform("seek", n, seek(editor, n))

NextOffset == SetOffset \/ GetElementOffset \/ SeekOffset

SpecOffset == InitCursor /\ [][NextOffset]_vars

\* value is representable in offSize bytes: 0 <= value < 2^(8 * offSize).
Fits(offSize, value) ==
  CASE offSize = 1 -> value.hi = 0 /\ value.lo < 256
    [] offSize = 2 -> value.hi = 0
    [] offSize = 3 -> value.hi < 256
    [] offSize = 4 -> TRUE
    [] OTHER -> FALSE

\* log[k] wrote a value that fits, log[k+1] sought back to where the write
\* began and log[k+2] read with the same width.
IsRoundTrip(k) ==
  /\ k + 2 <= Len(log)
  /\ log[k].op = "setOffset" /\ log[k].thrown = ""
  /\ Fits(log[k].arg[1], log[k].arg[2])
  /\ log[k + 1].op = "seek" /\ log[k + 1].arg = log[k].prior.offset_
  /\ log[k + 2].op = "getElementOffset" /\ log[k + 2].arg = log[k].arg[1]

\* C6: a value that fits its width, written by setOffset and read back by
\* getElementOffset from the same position, is returned unchanged, and
\* both operations advance the cursor by exactly the width.
OffsetRoundTrip ==
  pc = "cursor" =>
    \A k \in 1..Len(log) :
      /\ IsRoundTrip(k) =>
            /\ log[k + 2].thrown = ""
            /\ log[k + 2].data = log[k].arg[2]
      /\ (log[k].op = "setOffset" /\ log[k].arg[1] \in 1..4
             /\ log[k].thrown = "") =>
            log[k].post.offset_ = log[k].prior.offset_ + log[k].arg[1]
      /\ (log[k].op = "getElementOffset" /\ log[k].thrown = "") =>
            log[k].post.offset_ = log[k].prior.offset_ + log[k].arg

\* C6 witness: round trips of a 3-byte value and of a 4-byte value >= 2^31.
OffsetRoundTripWitness ==
  /\ pc = "cursor" /\ IsRoundTrip(1)
  /\ log[1].arg \in {<<3, Word(18, 13398)>>}
  /\ log[3].data = Word(18, 13398)
  /\ log[1].prior.offset_ = 0 /\ log[3].post.offset_ = 3

OffsetRoundTripWitness32 ==
  /\ pc = "cursor" /\ IsRoundTrip(1)
  /\ log[1].arg[1] = 4 /\ log[1].arg[2].hi >= 32768
  /\ log[3].data = log[1].arg[2]

-----------------------------------------------------------------------------
(* Side bearings: one call of setMtxSideBearing on an editor over an MTX   *)
(* table.                                                                  *)

\* Length in bytes of the DataView holding the MTX table.
MtxBufLen == 30

\* Largest metric count and largest glyph id passed.
MaxMetricCount == 5
MaxGid == 7

MtxStarts == {0, 2}

InitMtx ==
  /\ \E baseOffset \in {0, 1} :
       editor = NewEditor(InitBytes(MtxBufLen), baseOffset)
  /\ pc = "mtx"
  /\ log = <<>>
  /\ hdr = Unused /\ gos = Unused /\ ccmp = Unused

SetMtxSideBearing ==
  /\ pc = "mtx"
  /\ \E start \in MtxStarts, metricCount \in 0..MaxMetricCount,
        gid \in 0..MaxGid, value \in DataInt16 :
       LET r == setMtxSideBearing(editor, start, metricCount, gid, value)
       IN  /\ editor' = r.editor
           /\ log' = <<Entry("setMtxSideBearing",
                             <<start, metricCount, gid, value>>, r)>>
  /\ pc' = "mtxDone"
  /\ UNCHANGED <<hdr, gos, ccmp>>

NextMtx == SetMtxSideBearing

SpecMtx == InitMtx /\ [][NextMtx]_vars

\* The byte (relative to baseOffset_) where the side bearing of gid lives.
SideBearingByte(start, metricCount, gid) ==
  IF gid < metricCount
  THEN start + gid * 4 + 2
  ELSE start + metricCount * 4 + (gid - metricCount) * 2

\* C8: setMtxSideBearing stores the signed 16-bit value, big endian, in the
\* two bytes at SideBearingByte and changes no other byte.
SideBearingAddress ==
  pc = "mtxDone" =>
    LET l == log[1]
        b == l.prior.baseOffset_ + SideBearingByte(l.arg[1], l.arg[2], l.arg[3])
        old == l.prior.dataView_
        new == l.post.dataView_
    IN  IF InView(old, b, 2)
        THEN /\ l.thrown = ""
             /\ new[b + 1] * 256 + new[b + 2] = l.arg[4] % 65536
             /\ SameOutside(new, old, b, 2)
        ELSE l.thrown # "" /\ new = old

\* C8 witness: the two cases of the example, metricCount = 5 with gid 3
\* (byte start + 14) and gid 7 (byte start + 24), with a negative value.
SideBearingWitnessLow ==
  /\ pc = "mtxDone" /\ log[1].arg = <<2, 5, 3, -2>> /\ log[1].thrown = ""
  /\ log[1].at = log[1].prior.baseOffset_ + 2 + 14
  /\ log[1].post.dataView_[log[1].at + 1] = 255

SideBearingWitness ==
  /\ pc = "mtxDone" /\ log[1].arg = <<2, 5, 7, -2>> /\ log[1].thrown = ""
  /\ log[1].at = log[1].prior.baseOffset_ + 2 + 24
  /\ log[1].post.dataView_[log[1].at + 2] = 254

-----------------------------------------------------------------------------
(* The nibble reader and readExtraArray.                                   *)

\* nibbleReader(): the closure's variables.  value and nibbleByte start
\* undefined and are assigned before they are read.
nibbleReader(e) ==
  [editor |-> e, aligned |-> TRUE, nibbleByte |-> 0, thrown |-> ""]

\* One call of the closure: [reader |-> the closure afterwards, value].
readNextNibble(nr) ==
  IF nr.aligned
  THEN LET r == getUint8(nr.editor)
       IN  [reader |-> [editor |-> r.editor, aligned |-> FALSE,
                        nibbleByte |-> r.data,
                        thrown |-> IF nr.thrown # "" THEN nr.thrown
                                   ELSE r.thrown],
            value |-> r.data \div 16]
  ELSE [reader |-> [nr EXCEPT !.aligned = TRUE], value |-> nr.nibbleByte % 16]

\* extraData <<= 4: the left shift works on int32, so bit 27 of the operand
\* becomes the sign bit and the bits above it are lost.
ShiftLeft4(extraData) ==
  (extraData % 134217728) * 16
    + ((extraData \div 134217728) % 2) * (-2147483647 - 1)

\* The inner loop of readExtraArray: j from 0 to numNibbles - 1.
RECURSIVE ReadMagnitude(_, _, _)
ReadMagnitude(nr, numNibbles, extraData) ==
  IF numNibbles = 0 \/ nr.thrown # ""
  THEN [reader |-> nr, extraData |-> extraData]
  ELSE LET n == readNextNibble(nr)
       IN  ReadMagnitude(n.reader, numNibbles - 1,
                         ShiftLeft4(extraData) + n.value)

\* The outer loop of readExtraArray: the values still to read.
RECURSIVE ReadExtras(_, _, _)
ReadExtras(nr, extraLen, extraArray) ==
  IF extraLen = 0 \/ nr.thrown # ""
  THEN [reader |-> nr, extraArray |-> extraArray]
  ELSE LET h == readNextNibble(nr)
           sign == IF h.value < 8 THEN 1 ELSE -1
           numNibbles == IF h.value < 8 THEN h.value + 1 ELSE h.value - 7
           m == ReadMagnitude(h.reader, numNibbles, 0)
       IN  ReadExtras(m.reader, extraLen - 1,
                      Append(extraArray, m.extraData * sign))

\* return extraArray, from what the outer loop leaves.
ExtraOutcome(r) ==
  Outcome(r.reader.editor,
          IF r.reader.thrown # "" THEN <<>> ELSE r.extraArray,
          -1, r.reader.thrown)

readExtraArray(e, extraLen) ==
  ExtraOutcome(ReadExtras(nibbleReader(e), extraLen, <<>>))

-----------------------------------------------------------------------------
(* readNextGOS, in the phases of its code.  Each phase maps the editor and *)
(* the locals g of the call to [editor, gos].  The locals:                 *)
(*   start        offset_ when the call began                              *)
(*   type, nGroups, segments, extraOffset, extraArray   as in the code     *)
(*   i            the loop counter of the group loop                       *)
(*   phase        "groups", "extra", "subst", "sum", "done" or "thrown"    *)
(* Segment tuples and extraOffset entries keep the 0-based numbers of the  *)
(* code; sequences of the model count from 1.                              *)

GosTypes == {2, 3, 4, 5, 6, 7}

Step(e, g) == [editor |-> e, gos |-> g]

Throw(e, g, t) == Step(e, [g EXCEPT !.phase = "thrown", !.thrown = t])

\* var type = this.getUint8(); var nGroups = this.getUint16();
\* A type outside 2..7 matches no branch and goes straight to the return.
GosBegin(e) ==
  LET r1 == getUint8(e)
      r2 == getUint16(r1.editor)
      g == [start |-> e.offset_, type |-> r1.data, nGroups |-> r2.data,
            segments |-> <<>>, extraOffset |-> <<>>, extraArray |-> <<>>,
            i |-> 0, phase |-> "groups", thrown |-> ""]
  IN  IF r1.thrown # "" THEN Throw(r1.editor, g, r1.thrown)
      ELSE IF r2.thrown # "" THEN Throw(r2.editor, g, r2.thrown)
      ELSE Step(r2.editor,
                [g EXCEPT !.phase = IF r1.data \in GosTypes THEN "groups"
                                    ELSE "done"])

\* The escapes of one group: <<i, field>> for every field of the tuple
\* fields (fields 0, 1, ...) that equals its trigger (-1: no trigger).
RECURSIVE Escapes(_, _, _, _)
Escapes(i, fields, triggers, f) ==
  IF f >= Len(fields) THEN <<>>
  ELSE (IF fields[f + 1] = triggers[f + 1] THEN << <<i, f>> >> ELSE <<>>)
         \o Escapes(i, fields, triggers, f + 1)

\* The escape trigger of every field of a segment of the given type.
Triggers(type) ==
  CASE type = 3 -> <<31, 7, -1>>
    [] type = 2 -> <<7, 3, 7>>
    [] type \in {6, 7} -> <<31, 7>>
    [] OTHER -> <<>>

\* Type 4: the values of one byte, j = 0..3 while i < nGroups:
\* (nextByte & (0xC0 >>> (2 * j))) >>> (6 - 2 * j).
RECURSIVE Unpack4(_, _, _, _)
Unpack4(g, nextByte, j, shift) ==
  IF j >= 4 \/ g.i >= g.nGroups THEN g
  ELSE LET value == (nextByte \div shift) % 4
       IN  Unpack4([g EXCEPT
                      !.segments = Append(@, value),
                      !.extraOffset = IF value = 3 THEN Append(@, g.i) ELSE @,
                      !.i = @ + 1],
                   nextByte, j + 1, shift \div 4)

\* One pass of the group loop of the branch of g.type.
GosGroup(e, g) ==
  CASE g.type = 5 ->
         LET r1 == getUint32(e)
             r2 == getUint32(r1.editor)
             r3 == getUint32(r2.editor)
         IN  IF r1.thrown # "" THEN Throw(r1.editor, g, r1.thrown)
             ELSE IF r2.thrown # "" THEN Throw(r2.editor, g, r2.thrown)
             ELSE IF r3.thrown # "" THEN Throw(r3.editor, g, r3.thrown)
             ELSE Step(r3.editor,
                       [g EXCEPT !.segments =
                                   Append(@, <<Num(r1.data), Num(r2.data),
                                               Num(r3.data)>>),
                                 !.i = @ + 1])
    [] g.type = 4 ->
         LET r == getUint8(e)
         IN  IF r.thrown # "" THEN Throw(r.editor, g, r.thrown)
             ELSE Step(r.editor, Unpack4(g, r.data, 0, 64))
    [] g.type = 3 ->
         LET r == getElementOffset(e, 3)
             segment == Num(r.data)
             fields == <<segment \div 524288, (segment \div 65536) % 8,
                         segment % 65536>>
         IN  IF r.thrown # "" THEN Throw(r.editor, g, r.thrown)
             ELSE Step(r.editor,
                       [g EXCEPT !.segments = Append(@, fields),
                                 !.extraOffset =
                                   @ \o Escapes(g.i, fields, Triggers(3), 0),
                                 !.i = @ + 1])
    [] g.type = 2 ->
         LET r == getUint8(e)
             segment == r.data
             fields == <<segment \div 32, (segment \div 8) % 4, segment % 8>>
         IN  IF r.thrown # "" THEN Throw(r.editor, g, r.thrown)
             ELSE Step(r.editor,
                       [g EXCEPT !.segments = Append(@, fields),
                                 !.extraOffset =
                                   @ \o Escapes(g.i, fields, Triggers(2), 0),
                                 !.i = @ + 1])
    [] OTHER ->
         LET r == getUint8(e)
             segment == r.data
             fields == <<segment \div 8, segment % 8>>
         IN  IF r.thrown # "" THEN Throw(r.editor, g, r.thrown)
             ELSE Step(r.editor,
                       [g EXCEPT !.segments = Append(@, fields),
                                 !.extraOffset =
                                   @ \o Escapes(g.i, fields, Triggers(6), 0),
                                 !.i = @ + 1])

\* The group loop has ended: type 5 returns, the others read the extras.
GosGroupsEnd(e, g) ==
  Step(e, [g EXCEPT !.phase = IF g.type = 5 THEN "done" ELSE "extra"])

\* var extraArray = this.readExtraArray(extraOffset.length);
\* r is what readExtraArray leaves.
GosExtraRead(r, g) ==
  IF r.thrown # "" THEN Throw(r.editor, g, r.thrown)
  ELSE Step(r.editor, [g EXCEPT !.extraArray = r.data, !.phase = "subst"])

GosExtra(e, g) == GosExtraRead(readExtraArray(e, Len(g.extraOffset)), g)

\* segments[extraOffset[i]] = extraArray[i]  (type 4), or
\* segments[extraOffset[i][0]][extraOffset[i][1]] = extraArray[i].
RECURSIVE Substitute(_, _, _, _)
Substitute(type, segments, extraOffset, extraArray) ==
  IF extraOffset = <<>> THEN segments
  ELSE LET o == Head(extraOffset)
           x == Head(extraArray)
       IN  Substitute(type,
                      IF type = 4
                      THEN [segments EXCEPT ![o + 1] = x]
                      ELSE [segments EXCEPT ![o[1] + 1][o[2] + 1] = x],
                      Tail(extraOffset), Tail(extraArray))

GosSubst(e, g) ==
  Step(e, [g EXCEPT !.segments = Substitute(g.type, @, g.extraOffset,
                                            g.extraArray),
                    !.phase = IF g.type = 4 THEN "done" ELSE "sum"])

\* The glyph id of type 3 accumulated like that of type 2.
MutSummedFields(type) ==
  CASE type \in {2, 3} -> {0, 2}
    [] type \in {6, 7} -> {0, 1}
    [] OTHER -> {}

\* The fields (0-based) that the last loop of the branch accumulates.
SummedFields(type) ==
  CASE type = 3 -> {0}
    [] type = 2 -> {0, 2}
    [] type \in {6, 7} -> {0, 1}
    [] OTHER -> {}

\* for (var i = 1; i < nGroups; i++) segments[i][f] += segments[i - 1][f];
RECURSIVE Accumulate(_, _, _, _)
Accumulate(type, segments, i, nGroups) ==
  IF i >= nGroups THEN segments
  ELSE Accumulate(type,
                  [segments EXCEPT ![i + 1] =
                     [f \in 1..Len(@) |->
                        IF f - 1 \in SummedFields(type)
                        THEN @[f] + segments[i][f] ELSE @[f]]],
                  i + 1, nGroups)

GosSum(e, g) ==
  Step(e, [g EXCEPT !.segments = Accumulate(g.type, @, 1, g.nGroups),
                    !.phase = "done"])

\* One phase step of the call.
GosStep(e, g) ==
  CASE g.phase = "groups" /\ g.i < g.nGroups -> GosGroup(e, g)
    [] g.phase = "groups" /\ g.i >= g.nGroups -> GosGroupsEnd(e, g)
    [] g.phase = "extra" -> GosExtra(e, g)
    [] g.phase = "subst" -> GosSubst(e, g)
    [] g.phase = "sum" -> GosSum(e, g)
    [] OTHER -> Step(e, g)

\* The phases from the step n on, until the call returns or throws.
RECURSIVE GosRun(_)
GosRun(n) ==
  IF n.gos.phase \in {"done", "thrown"} THEN n
  ELSE GosRun(GosStep(n.editor, n.gos))

\* gos.segments = segments; gos.type = type; gos.len = nGroups; return gos;
GosObject(g) == [segments |-> g.segments, type |-> g.type, len |-> g.nGroups]

\* readNextGOS as one call.
GosOutcome(r) == Outcome(r.editor, GosObject(r.gos), -1, r.gos.thrown)

readNextGOS(e) == GosOutcome(GosRun(GosBegin(e)))

-----------------------------------------------------------------------------
(* The GOS specification: one call of readNextGOS on an editor whose       *)
(* DataView holds a type byte, a group count, the groups and the bytes of  *)
(* the nibble stream.                                                      *)

\* Largest group count of the tables of types 2, 3, 5, 6 and 7, and of the
\* tables of type 4 (which packs four values into a byte).
MaxGroups == 2
MaxGroups4 == 5

RECURSIVE Flatten(_)
Flatten(ss) == IF ss = <<>> THEN <<>> ELSE Head(ss) \o Flatten(Tail(ss))

\* The encodings of one group (for type 4: of one byte of four values),
\* with and without escape triggers in every field.
GroupBytes(type) ==
  CASE type = 5 -> {<<0, 0, 0, 65, 0, 0, 0, 3, 0, 0, 0, 10>>,
                    <<0, 0, 0, 97, 0, 0, 0, 3, 0, 0, 0, 40>>,
                    <<0, 1, 0, 0, 0, 0, 0, 0, 0, 0, 1, 2>>}
    [] type = 4 -> {<<27>>, <<228>>, <<255>>, <<80>>}
    [] type = 3 -> {<<10, 0, 16>>, <<249, 18, 52>>, <<23, 0, 5>>,
                    <<255, 255, 255>>}
    [] type = 2 -> {<<37>>, <<233>>, <<31>>, <<255>>}
    [] type \in {6, 7} -> {<<10>>, <<249>>, <<23>>, <<255>>}
    [] OTHER -> {<<9>>}

\* The number of encodings that hold n groups.
GroupUnits(type, n) == IF type = 4 THEN (n + 3) \div 4 ELSE n

\* The bytes after the groups: nibble streams of positive and negative
\* extra values of one to three nibbles, and a stream that ends early.
NibbleTails ==
  {<<5, 131, 18, 9, 16, 0, 129, 7, 1, 2, 3>>,
   <<161, 35, 3, 32, 1, 135, 2, 4, 1, 6, 0>>,
   <<5>>}

GosInputTypes == GosTypes \cup {1, 8}

GosInputs ==
  UNION {
    UNION {
      {<<type, 0, n>> \o Flatten(groups) \o tail :
         groups \in [1..GroupUnits(type, n) -> GroupBytes(type)],
         tail \in NibbleTails}
      : n \in 0..(IF type = 4 THEN MaxGroups4 ELSE MaxGroups)}
    : type \in GosInputTypes}

InitGOS ==
  /\ \E bytes \in GosInputs, baseOffset \in {0, 1} :
       editor = NewEditor(SubSeq(<<0>>, 1, baseOffset) \o bytes, baseOffset)
  /\ pc = "gosCall"
  /\ gos = Unused
  /\ log = <<>> /\ hdr = Unused /\ ccmp = Unused

\* Apply a phase.
GosApply(n) ==
  /\ editor' = n.editor
  /\ gos' = n.gos
  /\ pc' = "gos"
  /\ UNCHANGED <<log, hdr, ccmp>>

ReadGOSBegin == pc = "gosCall" /\ GosApply(GosBegin(editor))

ReadGOSGroup ==
  /\ pc = "gos" /\ gos.phase = "groups" /\ gos.i < gos.nGroups
  /\ GosApply(GosGroup(editor, gos))

ReadGOSGroupsEnd ==
  /\ pc = "gos" /\ gos.phase = "groups" /\ gos.i >= gos.nGroups
  /\ GosApply(GosGroupsEnd(editor, gos))

ReadGOSExtra ==
  pc = "gos" /\ gos.phase = "extra" /\ GosApply(GosExtra(editor, gos))

ReadGOSSubst ==
  pc = "gos" /\ gos.phase = "subst" /\ GosApply(GosSubst(editor, gos))

ReadGOSSum ==
  pc = "gos" /\ gos.phase = "sum" /\ GosApply(GosSum(editor, gos))

NextGOS ==
  \/ ReadGOSBegin \/ ReadGOSGroup \/ ReadGOSGroupsEnd
  \/ ReadGOSExtra \/ ReadGOSSubst \/ ReadGOSSum

SpecGOS == InitGOS /\ [][NextGOS]_vars

\* readNextGOS has returned a GOS table.
GosReturned == pc = "gos" /\ gos.phase = "done"

\* C5: every GOS table readNextGOS returns holds as many segments as the
\* group count it declares.
GOSSegmentCount ==
  GosReturned => Len(GosObject(gos).segments) = GosObject(gos).len

\* C5 for the types the decoder has a branch for.
GOSSegmentCountKnownTypes ==
  (GosReturned /\ gos.type \in GosTypes) =>
     Len(GosObject(gos).segments) = GosObject(gos).len

(* The packed format of the groups, read off the DataView directly.        *)

\* Bits hi..lo of x.
Bits(x, hi, lo) == (x \div (2 ^ lo)) % (2 ^ (hi - lo + 1))

\* The address of group i (0-based) of the table the call decodes.
GroupAddress(i) ==
  editor.baseOffset_ + gos.start + 3
    + i * (CASE gos.type = 5 -> 12 [] gos.type = 3 -> 3 [] OTHER -> 1)

\* The packed value of field f of group i, for the types 2, 3, 6 and 7.
PackedField(i, f) ==
  LET dv == editor.dataView_
      a == GroupAddress(i)
      b == dv[a + 1]
  IN  CASE gos.type = 2 ->
             (CASE f = 0 -> Bits(b, 7, 5) [] f = 1 -> Bits(b, 4, 3)
                [] OTHER -> Bits(b, 2, 0))
        [] gos.type = 3 ->
             (CASE f = 0 -> Bits(b, 7, 3) [] f = 1 -> Bits(b, 2, 0)
                [] OTHER -> dv[a + 2] * 256 + dv[a + 3])
        [] OTHER -> (CASE f = 0 -> Bits(b, 7, 3) [] OTHER -> Bits(b, 2, 0))

\* The number of fields of a segment and the escape trigger of each.
FieldCount == IF gos.type \in {6, 7} THEN 2 ELSE 3

IsEscape(i, f) ==
  CASE gos.type = 2 -> PackedField(i, f) = (IF f = 1 THEN 3 ELSE 7)
    [] gos.type = 3 -> f < 2 /\ PackedField(i, f) = (IF f = 0 THEN 31 ELSE 7)
    [] OTHER -> PackedField(i, f) = (IF f = 0 THEN 31 ELSE 7)

\* The escaped fields of the groups read so far, and how many of them
\* come before field f of group i in read order.
EscapedFields(n) ==
  {o \in (0..(n - 1)) \X (0..(FieldCount - 1)) : IsEscape(o[1], o[2])}

EscapesBefore(n, i, f) ==
  Cardinality({o \in EscapedFields(n) :
                 o[1] < i \/ (o[1] = i /\ o[2] < f)})

\* The extra values: decoded from the nibble stream after the last group.
ExtrasAfterGroups ==
  readExtraArray(seek(editor, GroupAddress(gos.nGroups) - editor.baseOffset_)
                   .editor,
                 Cardinality(EscapedFields(gos.nGroups))).data

\* Field f of group i after substitution.
Substituted(i, f) ==
  IF IsEscape(i, f)
  THEN ExtrasAfterGroups[EscapesBefore(gos.nGroups, i, f) + 1]
  ELSE PackedField(i, f)

\* The sum of field f after substitution over the groups 0..i.
RECURSIVE SumThrough(_, _)
SumThrough(i, f) ==
  IF i < 0 THEN 0 ELSE Substituted(i, f) + SumThrough(i - 1, f)

IsSummed(f) ==
  CASE gos.type = 2 -> f \in {0, 2}
    [] gos.type = 3 -> f = 0
    [] OTHER -> TRUE

\* The packed category i (0-based) of a table of type 4.
PackedCategory(i) ==
  Bits(editor.dataView_[editor.baseOffset_ + gos.start + 3 + i \div 4 + 1],
       7 - 2 * (i % 4), 6 - 2 * (i % 4))

\* C10: in the branches of types 2, 3, 6 and 7 the escaped fields are
\* recorded in read order, as many extra values are decoded from the nibble
\* stream after the last group, the k-th value replaces the k-th recorded
\* field, and the cumulative sums are taken afterwards over the
\* substituted values (type 2: fields 0 and 2, type 3: field 0, types 6
\* and 7: both fields).  Segments of type 5 and values of type 4 are not
\* summed.
GOSEscapesThenSums ==
  (pc = "gos" /\ gos.phase # "thrown") =>
    /\ gos.type \in {2, 3, 6, 7} =>
         /\ Len(gos.extraOffset) = Cardinality(EscapedFields(gos.i))
         /\ \A k \in 1..Len(gos.extraOffset) :
              /\ gos.extraOffset[k] \in EscapedFields(gos.i)
              /\ EscapesBefore(gos.i, gos.extraOffset[k][1],
                               gos.extraOffset[k][2]) = k - 1
         /\ gos.phase \in {"subst", "sum", "done"} =>
              gos.extraArray = ExtrasAfterGroups
         /\ gos.phase = "subst" =>
              \A i \in 0..(gos.nGroups - 1), f \in 0..(FieldCount - 1) :
                gos.segments[i + 1][f + 1] = PackedField(i, f)
         /\ gos.phase = "sum" =>
              \A i \in 0..(gos.nGroups - 1), f \in 0..(FieldCount - 1) :
                gos.segments[i + 1][f + 1] = Substituted(i, f)
         /\ gos.phase = "done" =>
              /\ Len(gos.segments) = gos.nGroups
              /\ \A i \in 0..(gos.nGroups - 1), f \in 0..(FieldCount - 1) :
                   gos.segments[i + 1][f + 1] =
                     IF IsSummed(f) THEN SumThrough(i, f)
                     ELSE Substituted(i, f)
    /\ (gos.type = 5 /\ gos.phase = "done") =>
         \A i \in 0..(gos.nGroups - 1), f \in 0..2 :
           ToWord(gos.segments[i + 1][f + 1])
             = ViewUint32(editor.dataView_, GroupAddress(i) + 4 * f)
    /\ (gos.type = 4 /\ gos.phase = "done") =>
         \A i \in 0..(gos.nGroups - 1) :
           gos.segments[i + 1] =
             IF PackedCategory(i) = 3
             THEN gos.extraArray[
                    Cardinality({j \in 0..(i - 1) : PackedCategory(j) = 3}) + 1]
             ELSE PackedCategory(i)

\* C10 witness: a returned table of type 2 whose second start code is an
\* escaped negative delta (-291) added to the first start code.
GOSEscapesThenSumsWitness ==
  /\ GosReturned /\ gos.type = 2
  /\ gos.extraOffset = << <<1, 0>> >>
  /\ gos.extraArray = <<-291>>
  /\ gos.segments = <<<<1, 0, 5>>, <<-290, 1, 6>>>>

-----------------------------------------------------------------------------
(* The reconstruction of the format 4 arrays in readOps.CCMP, one pass of  *)
(* a loop per step.  The locals c of the reconstruction carry the names of *)
(* the code; phase is "entry" (at the head of the loop over the type 4     *)
(* lengths), "walk" (in the loop over the code points), "done" or          *)
(* "thrown".  Segment numbers are 0-based as in the code.  The first GOS   *)
(* table is taken to hold 3-tuples (types 2, 3 and 5).                     *)

CcmpBegin(gos_type_12, gos_type_4_lens) ==
  [gos_type_12 |-> gos_type_12, gos_type_4_lens |-> gos_type_4_lens,
   format_4_arrays |-> <<>>, glyphIdArray |-> <<>>, glyphIdIdx |-> 0,
   fmt12SegNum |-> 0, fmt12SegNumBegin |-> 0, fmt12SegNumEnd |-> 0,
   fmt4SegCount |-> gos_type_4_lens.len, i |-> 0,
   startCode |-> 0, endCode |-> 0, idDelta |-> 0, idRangeOffset |-> 0,
   startGid |-> 0, codeRange |-> 0, currentSeg |-> 0, currentSegArr |-> <<>>,
   codePoint |-> 0, phase |-> "entry", thrown |-> ""]

\* A throw that is dropped: the loop goes on with the next entry.
MutCcmpThrow(c, t) == [c EXCEPT !.i = @ + 1]

CcmpThrow(c, t) == [c EXCEPT !.phase = "thrown", !.thrown = t]

\* gos_type_12.segments[k] is defined.
HasSegment(c, k) == k >= 0 /\ k < Len(c.gos_type_12.segments)

\* (x) & 0xFFFF: the low 16 bits of the int32 of x.
BitAnd16(x) == x % 65536

\* One pass of the loop over the type 4 lengths, up to the loop over the
\* code points.
CcmpEntry(c) ==
  LET v == c.gos_type_4_lens.segments[c.i + 1]
      first == c.fmt12SegNum
      last == c.fmt12SegNum + v - 1
  IN  IF v = 0
      THEN IF c.i # c.fmt4SegCount - 1
           THEN CcmpThrow(c, "invalid segment")
           ELSE [c EXCEPT !.format_4_arrays = Append(@, <<65535, 65535, 1, 0>>),
                          !.i = @ + 1]
      ELSE IF ~HasSegment(c, first) \/ ~HasSegment(c, last)
      THEN CcmpThrow(c, "TypeError")
      ELSE
        LET startGid == c.gos_type_12.segments[first + 1][3]
            startCode == c.gos_type_12.segments[first + 1][1]
            endCode == c.gos_type_12.segments[last + 1][1]
                         + c.gos_type_12.segments[last + 1][2] - 1
            d == [c EXCEPT !.fmt12SegNumBegin = first,
                           !.fmt12SegNumEnd = last,
                           !.startGid = startGid,
                           !.startCode = startCode,
                           !.endCode = endCode,
                           !.fmt12SegNum = last + 1]
        IN  IF v = 1
            THEN LET idDelta == BitAnd16(startGid - startCode + 65536)
                 IN  [d EXCEPT !.idRangeOffset = 0,
                               !.idDelta = idDelta,
                               !.format_4_arrays =
                                 Append(@, <<startCode, endCode, idDelta, 0>>),
                               !.i = @ + 1]
            ELSE [d EXCEPT !.idDelta = 0,
                           !.idRangeOffset =
                             2 * (c.glyphIdIdx - c.i + c.fmt4SegCount),
                           !.codeRange = endCode - startCode + 1,
                           !.glyphIdIdx = @ + (endCode - startCode + 1),
                           !.currentSeg = first,
                           !.currentSegArr = c.gos_type_12.segments[first + 1],
                           !.codePoint = startCode,
                           !.phase = "walk"]

\* The loop over the code points with gid = currentSegArr[2] + codePoint.
MutCcmpWalk(c) ==
  LET seg == c.currentSegArr
  IN  IF c.codePoint >= seg[1] /\ c.codePoint <= seg[1] + seg[2] - 1
      THEN [c EXCEPT !.glyphIdArray = Append(@, seg[3] + c.codePoint),
                     !.codePoint = @ + 1]
      ELSE IF c.codePoint > seg[1] + seg[2] - 1
      THEN [c EXCEPT !.currentSeg = @ + 1,
                     !.currentSegArr =
                       IF c.currentSeg + 1 <= c.fmt12SegNumEnd
                       THEN c.gos_type_12.segments[c.currentSeg + 2]
                       ELSE @]
      ELSE [c EXCEPT !.glyphIdArray = Append(@, 0), !.codePoint = @ + 1]

\* The loop over the code points with a current segment that stays where
\* it is when the code point lies past its end.
MutCcmpWalkStay(c) ==
  LET seg == c.currentSegArr
  IN  IF c.codePoint >= seg[1] /\ c.codePoint <= seg[1] + seg[2] - 1
      THEN [c EXCEPT !.glyphIdArray = Append(@, seg[3] + c.codePoint - seg[1]),
                     !.codePoint = @ + 1]
      ELSE IF c.codePoint > seg[1] + seg[2] - 1
      THEN c
      ELSE [c EXCEPT !.glyphIdArray = Append(@, 0), !.codePoint = @ + 1]

\* One pass of the loop over the code points (codePoint <= endCode).
CcmpWalk(c) ==
  LET seg == c.currentSegArr
  IN  IF c.codePoint >= seg[1] /\ c.codePoint <= seg[1] + seg[2] - 1
      THEN [c EXCEPT !.glyphIdArray = Append(@, seg[3] + c.codePoint - seg[1]),
                     !.codePoint = @ + 1]
      ELSE IF c.codePoint > seg[1] + seg[2] - 1
      THEN [c EXCEPT !.currentSeg = @ + 1,
                     !.currentSegArr =
                       IF c.currentSeg + 1 <= c.fmt12SegNumEnd
                       THEN c.gos_type_12.segments[c.currentSeg + 2]
                       ELSE @]
      ELSE [c EXCEPT !.glyphIdArray = Append(@, 0), !.codePoint = @ + 1]

\* After the loop over the code points: the length check and the push.
CcmpWalkEnd(c) ==
  IF c.glyphIdIdx # Len(c.glyphIdArray)
  THEN CcmpThrow(c, "glyphIdArray update failure")
  ELSE [c EXCEPT !.format_4_arrays =
                   Append(@, <<c.startCode, c.endCode, c.idDelta,
                               c.idRangeOffset>>),
                 !.i = @ + 1,
                 !.phase = "entry"]

\* After the loop over the type 4 lengths.
CcmpEnd(c) == [c EXCEPT !.phase = "done"]

CcmpStep(c) ==
  CASE c.phase = "entry" /\ c.i < c.fmt4SegCount -> CcmpEntry(c)
    [] c.phase = "entry" /\ c.i >= c.fmt4SegCount -> CcmpEnd(c)
    [] c.phase = "walk" /\ c.codePoint <= c.endCode -> CcmpWalk(c)
    [] c.phase = "walk" /\ c.codePoint > c.endCode -> CcmpWalkEnd(c)
    [] OTHER -> c

RECURSIVE CcmpRun(_)
CcmpRun(c) ==
  IF c.phase \in {"done", "thrown"} THEN c ELSE CcmpRun(CcmpStep(c))

\* compact_gos.cmap4 = {segments: format_4_arrays, glyphIdArray: ...}.
Cmap4Object(c) ==
  [segments |-> c.format_4_arrays, glyphIdArray |-> c.glyphIdArray]

-----------------------------------------------------------------------------
(* The CCMP specification: the reconstruction on two decoded GOS tables,   *)
(* a format 12 table of type 5 and a table of type 4 lengths.              *)

\* Largest number of segments of the format 12 table.
MaxSegs12 == 3

\* The format 12 segments [startCode, length, gid]: adjacent ones, ones
\* with a gap between them, an empty one, one that overlaps others, and
\* the two segments 'A'-'C' -> 10-12 and 'a'-'c' -> 40-42.
Fmt12Segments ==
  {<<10, 2, 40>>, <<12, 3, 3>>, <<17, 2, 50>>, <<20, 0, 7>>, <<10, 5, 100>>,
   <<65, 3, 10>>, <<97, 3, 40>>}

\* The type 4 lengths: with and without the end segment, a zero before
\* the end, and more segments asked for than the tables here hold.
Fmt4Lengths ==
  {<<1, 0>>, <<2, 0>>, <<3, 0>>, <<1, 2, 0>>, <<2, 1, 0>>, <<2, 2>>,
   <<0, 1>>, <<1, 1, 1>>}

GosOf(type, segments) ==
  [segments |-> segments, type |-> type, len |-> Len(segments)]

InitCCMP ==
  /\ \E n \in 0..MaxSegs12 :
       \E segments \in [1..n -> Fmt12Segments], lens \in Fmt4Lengths :
         ccmp = CcmpBegin(GosOf(5, segments), GosOf(4, lens))
  /\ pc = "ccmp"
  /\ editor = Unused /\ log = <<>> /\ hdr = Unused /\ gos = Unused

CcmpApply(c) ==
  /\ ccmp' = c
  /\ UNCHANGED <<editor, pc, log, hdr, gos>>

CCMPEntry ==
  /\ pc = "ccmp" /\ ccmp.phase = "entry" /\ ccmp.i < ccmp.fmt4SegCount
  /\ CcmpApply(CcmpEntry(ccmp))

CCMPWalk ==
  /\ pc = "ccmp" /\ ccmp.phase = "walk" /\ ccmp.codePoint <= ccmp.endCode
  /\ CcmpApply(CcmpWalk(ccmp))

CCMPWalkEnd ==
  /\ pc = "ccmp" /\ ccmp.phase = "walk" /\ ccmp.codePoint > ccmp.endCode
  /\ CcmpApply(CcmpWalkEnd(ccmp))

CCMPEnd ==
  /\ pc = "ccmp" /\ ccmp.phase = "entry" /\ ccmp.i >= ccmp.fmt4SegCount
  /\ CcmpApply(CcmpEnd(ccmp))

NextCCMP == CCMPEntry \/ CCMPWalk \/ CCMPWalkEnd \/ CCMPEnd

SpecCCMP == InitCCMP /\ [][NextCCMP]_vars

(* What the reconstruction is to produce, entry by entry.  j is the index  *)
(* (0-based) of an entry of the type 4 lengths.                            *)

RunLength(j) == ccmp.gos_type_4_lens.segments[j + 1]

Segment12(k) == ccmp.gos_type_12.segments[k + 1]

\* The number of format 12 segments the entries before j consume.
RECURSIVE ConsumedBefore(_)
ConsumedBefore(j) ==
  IF j <= 0 THEN 0 ELSE ConsumedBefore(j - 1) + RunLength(j - 1)

FirstConsumed(j) == ConsumedBefore(j)

LastConsumed(j) == ConsumedBefore(j) + RunLength(j) - 1

StartCodeOf(j) == Segment12(FirstConsumed(j))[1]

EndCodeOf(j) == Segment12(LastConsumed(j))[1] + Segment12(LastConsumed(j))[2] - 1

\* The number of glyph ids the entries before j append.
RECURSIVE GlyphIdsBefore(_)
GlyphIdsBefore(j) ==
  IF j <= 0 THEN 0
  ELSE GlyphIdsBefore(j - 1)
         + (IF RunLength(j - 1) > 1
            THEN EndCodeOf(j - 1) - StartCodeOf(j - 1) + 1 ELSE 0)

\* Code point cp lies inside format 12 segment k.
Inside(cp, k) ==
  cp >= Segment12(k)[1] /\ cp <= Segment12(k)[1] + Segment12(k)[2] - 1

\* The glyph id appended for code point cp of entry j.
GlyphIdAt(j, cp) ==
  ccmp.glyphIdArray[GlyphIdsBefore(j) + (cp - StartCodeOf(j)) + 1]

\* The glyph ids of entry j are those of the consumed segments, and 0 in
\* the gaps.
GlyphIdsOfRun(j) ==
  \A cp \in StartCodeOf(j)..EndCodeOf(j) :
    LET ks == {k \in FirstConsumed(j)..LastConsumed(j) : Inside(cp, k)}
    IN  IF ks = {} THEN GlyphIdAt(j, cp) = 0
        ELSE \E k \in ks :
               GlyphIdAt(j, cp) = Segment12(k)[3] + cp - Segment12(k)[1]

\* The consumed segments of entry j have lengths >= 0, are in ascending
\* order and do not overlap: each starts at or after the code point that
\* follows the end of the one before it.
AscendingRun(j) ==
  /\ \A k \in FirstConsumed(j)..LastConsumed(j) : Segment12(k)[2] >= 0
  /\ \A k \in FirstConsumed(j)..(LastConsumed(j) - 1) :
       Segment12(k + 1)[1] >= Segment12(k)[1] + Segment12(k)[2]

\* Entry j has been reconstructed: its format 4 segment has been pushed.
Reconstructed(j) ==
  /\ pc = "ccmp" /\ j >= 0 /\ j < ccmp.i /\ RunLength(j) > 0

\* What C9 says of entry j but for the values of the glyph ids.
EntryOfRun(j) ==
  LET f == ccmp.format_4_arrays[j + 1]
  IN  /\ ccmp.fmt12SegNum >= LastConsumed(j) + 1
      /\ f[1] = StartCodeOf(j)
      /\ f[2] = EndCodeOf(j)
      /\ RunLength(j) = 1 =>
            /\ f[4] = 0
            /\ f[3] \in 0..65535
            /\ (f[3] - (Segment12(FirstConsumed(j))[3] - StartCodeOf(j)))
                  % 65536 = 0
      /\ RunLength(j) > 1 =>
            /\ f[3] = 0
            /\ f[4] = 2 * (GlyphIdsBefore(j) - j + Len(ccmp.gos_type_4_lens.segments))
            /\ f[4] # 0
            /\ Len(ccmp.glyphIdArray) >= GlyphIdsBefore(j + 1)
            /\ GlyphIdsBefore(j + 1) - GlyphIdsBefore(j)
                  = EndCodeOf(j) - StartCodeOf(j) + 1

\* Between two entries the glyph id array holds what the entries so far
\* appended and nothing else.
NothingElseAppended ==
  (pc = "ccmp" /\ ccmp.phase \in {"entry", "done"}) =>
     /\ Len(ccmp.glyphIdArray) = GlyphIdsBefore(ccmp.i)
     /\ Len(ccmp.format_4_arrays) = ccmp.i
     /\ ccmp.fmt12SegNum = ConsumedBefore(ccmp.i)

-----------------------------------------------------------------------------
(* The header of the base font.  A string is the sequence of its char      *)
(* codes, as readString builds it.  fileInfo is a function from the names  *)
(* of the properties set so far to their values.                           *)

\* 'BSAC'
magicHead == <<66, 83, 65, 67>>

BASE_VERSION == 1

TagGLOF == <<71, 76, 79, 70>>
TagGLCN == <<71, 76, 67, 78>>
TagLCOF == <<76, 67, 79, 70>>
TagLCFM == <<76, 67, 70, 77>>
TagHMOF == <<72, 77, 79, 70>>
TagVMOF == <<86, 77, 79, 70>>
TagHMMC == <<72, 77, 77, 67>>
TagVMMC == <<86, 77, 77, 67>>
TagTYPE == <<84, 89, 80, 69>>
TagCM12 == <<67, 77, 49, 50>>
TagCM04 == <<67, 77, 48, 52>>
TagCCMP == <<67, 67, 77, 80>>
TagCS02 == <<67, 83, 48, 50>>
TagSHA1 == <<83, 72, 65, 49>>

\* The own properties of TAGS.
TAGS ==
  {TagGLOF, TagGLCN, TagLCOF, TagLCFM, TagHMOF, TagVMOF, TagHMMC, TagVMMC,
   TagTYPE, TagCM12, TagCM04, TagCCMP, TagCS02, TagSHA1}

\* {}
EmptyObject == [k \in {} |-> 0]

\* undefined
Undefined == [undefined |-> TRUE]

\* fileInfo.name = value
Put(fileInfo, name, value) == (name :> value) @@ fileInfo

\* fileInfo.name is truthy (the values stored here are objects).
Has(fileInfo, name) == name \in DOMAIN fileInfo

\* What a handler leaves: the editor, fileInfo and the exception thrown.
Handled(e, fileInfo, t) == [editor |-> e, fileInfo |-> fileInfo, thrown |-> t]

\* fileInfo.name = r.data for the outcome r of one cursor read.
SetFrom(r, fileInfo, name) ==
  IF r.thrown # "" THEN Handled(r.editor, fileInfo, r.thrown)
  ELSE Handled(r.editor, Put(fileInfo, name, r.data), "")

GLOF(e, fileInfo) == SetFrom(getUint32(e), fileInfo, "glyphOffset")

GLCN(e, fileInfo) == SetFrom(getUint16(e), fileInfo, "numGlyphs")

LCOF(e, fileInfo) == SetFrom(getUint32(e), fileInfo, "glyphDataOffset")

LCFM(e, fileInfo) == SetFrom(getUint8(e), fileInfo, "offsetSize")

HMOF(e, fileInfo) == SetFrom(getUint32(e), fileInfo, "hmtxOffset")

VMOF(e, fileInfo) == SetFrom(getUint32(e), fileInfo, "vmtxOffset")

HMMC(e, fileInfo) == SetFrom(getUint16(e), fileInfo, "hmetricCount")

VMMC(e, fileInfo) == SetFrom(getUint16(e), fileInfo, "vmetricCount")

TYPE(e, fileInfo) == SetFrom(getUint8(e), fileInfo, "isTtf")

\* Two getUint32 in a row, stored as the properties first and second of
\* an object that becomes fileInfo.name.
SetPair(e, fileInfo, name, first, second) ==
  LET r1 == getUint32(e)
      r2 == getUint32(r1.editor)
  IN  IF r1.thrown # "" THEN Handled(r1.editor, fileInfo, r1.thrown)
      ELSE IF r2.thrown # "" THEN Handled(r2.editor, fileInfo, r2.thrown)
      ELSE Handled(r2.editor,
                   Put(fileInfo, name, (first :> r1.data) @@ (second :> r2.data)),
                   "")

CM12(e, fileInfo) == SetPair(e, fileInfo, "cmap12", "offset", "nGroups")

\* CM04 storing its object as fileInfo.cmap12.
MutCM04(e, fileInfo) == SetPair(e, fileInfo, "cmap12", "offset", "length")

CM04(e, fileInfo) == SetPair(e, fileInfo, "cmap4", "offset", "length")

\* for (i < GOSCount) GOSArray.push(editor.readNextGOS())
\* r is what the last readNextGOS left.
RECURSIVE ReadGOSArray(_, _, _)
RECURSIVE PushGOS(_, _, _)
ReadGOSArray(r, GOSCount, GOSArray) ==
  IF r.thrown # "" THEN Outcome(r.editor, GOSArray, -1, r.thrown)
  ELSE IF Len(GOSArray) >= GOSCount THEN Outcome(r.editor, GOSArray, -1, "")
  ELSE PushGOS(readNextGOS(r.editor), GOSCount, GOSArray)

PushGOS(r, GOSCount, GOSArray) ==
  ReadGOSArray(r, GOSCount,
               IF r.thrown # "" THEN GOSArray ELSE Append(GOSArray, r.data))

\* The condition under which CCMP generates the format 4 arrays.
Reconstructs(fileInfo, GOSArray) ==
  /\ Has(fileInfo, "cmap4") /\ Has(fileInfo, "cmap12")
  /\ Len(GOSArray) = 2
  /\ GOSArray[2].type = 4

\* The end of CCMP after a reconstruction c.
CcmpReconstructed(c, e, fileInfo, first) ==
  IF c.thrown # "" THEN Handled(e, fileInfo, c.thrown)
  ELSE Handled(e, Put(fileInfo, "compact_gos",
                      [cmap4 |-> Cmap4Object(c), cmap12 |-> first]), "")

\* CCMP after its loop over GOSCount, which left a.
CcmpTables(a, fileInfo) ==
  LET GOSArray == a.data
      first == IF Len(GOSArray) > 0 THEN GOSArray[1] ELSE Undefined
  IN  IF a.thrown # "" THEN Handled(a.editor, fileInfo, a.thrown)
      ELSE IF ~Reconstructs(fileInfo, GOSArray)
      THEN Handled(a.editor,
                   Put(fileInfo, "compact_gos", [cmap12 |-> first]), "")
      ELSE CcmpReconstructed(CcmpRun(CcmpBegin(GOSArray[1], GOSArray[2])),
                             a.editor, fileInfo, first)

\* CCMP after var GOSCount = editor.getUint8(), which left n.
CcmpCounted(n, fileInfo) ==
  IF n.thrown # "" THEN Handled(n.editor, fileInfo, n.thrown)
  ELSE CcmpTables(ReadGOSArray(n, n.data, <<>>), fileInfo)

CCMP(e, fileInfo) == CcmpCounted(getUint8(e), fileInfo)

\* CS02 after readNextGOS, which left g.
Cs02Table(g, fileInfo, offset) ==
  IF g.thrown # "" THEN Handled(g.editor, fileInfo, g.thrown)
  ELSE Handled(g.editor,
               Put(fileInfo, "charset_fmt",
                   [offset |-> offset, gos |-> g.data]), "")

CS02(e, fileInfo) ==
  LET o == getUint32(e)
  IN  IF o.thrown # "" THEN Handled(o.editor, fileInfo, o.thrown)
      ELSE Cs02Table(readNextGOS(o.editor), fileInfo, o.data)

SHA1(e, fileInfo) == SetFrom(readString(e, 40), fileInfo, "sha1_fingerprint")

\* TAGS[tag]['fn'](editor, fileInfo)
CallTag(tag, e, fileInfo) ==
  CASE tag = TagGLOF -> GLOF(e, fileInfo)
    [] tag = TagGLCN -> GLCN(e, fileInfo)
    [] tag = TagLCOF -> LCOF(e, fileInfo)
    [] tag = TagLCFM -> LCFM(e, fileInfo)
    [] tag = TagHMOF -> HMOF(e, fileInfo)
    [] tag = TagVMOF -> VMOF(e, fileInfo)
    [] tag = TagHMMC -> HMMC(e, fileInfo)
    [] tag = TagVMMC -> VMMC(e, fileInfo)
    [] tag = TagTYPE -> TYPE(e, fileInfo)
    [] tag = TagCM12 -> CM12(e, fileInfo)
    [] tag = TagCM04 -> CM04(e, fileInfo)
    [] tag = TagCCMP -> CCMP(e, fileInfo)
    [] tag = TagCS02 -> CS02(e, fileInfo)
    [] tag = TagSHA1 -> SHA1(e, fileInfo)
    [] OTHER -> Handled(e, fileInfo, "TypeError")

-----------------------------------------------------------------------------
(* parseBaseHeader, one step per phase.  The locals h carry the names of   *)
(* the code; phase is "magic", "version", "count", "entry" (at the head of *)
(* the loop over the tag table), "handler" (the cursor is at the payload,  *)
(* the handler is about to be called), "done" or "thrown".  Three fields   *)
(* record the history of the call: read, the number of tag-table entries   *)
(* read; calls, the handlers invoked with the cursor position of the       *)
(* invocation; returned, the sequence of the records returned (none or     *)
(* one).                                                                   *)

HdrBegin ==
  [results |-> EmptyObject, count |-> 0, dataStart |-> 0, i |-> 0,
   tag |-> <<>>, tagOffset |-> Word(0, 0), saveOffset |-> 0,
   phase |-> "magic", thrown |-> "", read |-> 0, calls |-> <<>>,
   returned |-> <<>>]

HdrStep(e, h) == [editor |-> e, hdr |-> h]

HdrThrow(e, h, t) == HdrStep(e, [h EXCEPT !.phase = "thrown", !.thrown = t])

\* The magic check with every string of 4 chars accepted.
MutMagicMatches(magic) == Len(magic) = 4

\* magic == tachyfont.BinaryFontEditor.magicHead
MagicMatches(magic) == magic = magicHead

HdrMagic(e, h) ==
  LET r == readString(e, 4)
  IN  IF r.thrown # "" THEN HdrThrow(r.editor, h, r.thrown)
      ELSE IF ~MagicMatches(r.data)
      THEN HdrThrow(r.editor, h, "magic number mismatch")
      ELSE HdrStep(r.editor, [h EXCEPT !.results = EmptyObject,
                                       !.phase = "version"])

HdrVersion(e, h) ==
  LET s == getInt32_(e)
      v == getInt32_(s.editor)
      results == Put(Put(h.results, "headSize", s.data), "version", v.data)
  IN  IF s.thrown # "" THEN HdrThrow(s.editor, h, s.thrown)
      ELSE IF v.thrown # "" THEN HdrThrow(v.editor, h, v.thrown)
      ELSE IF v.data # BASE_VERSION
      THEN HdrThrow(v.editor, [h EXCEPT !.results = results],
                    "Incompatible Base Font Version detected!")
      ELSE HdrStep(v.editor, [h EXCEPT !.results = results,
                                       !.phase = "count"])

\* dataStart with 12 bytes counted before the tag table.
MutDataStart(count) == count * 8 + 4 + 4 + 4

\* magic, headSize, ver, count
DataStart(count) == count * 8 + 4 + 4 + 4 + 2

HdrCount(e, h) ==
  LET r == getUint16(e)
  IN  IF r.thrown # "" THEN HdrThrow(r.editor, h, r.thrown)
      ELSE HdrStep(r.editor, [h EXCEPT !.count = r.data,
                                       !.dataStart = DataStart(r.data),
                                       !.i = 0, !.phase = "entry"])

\* TAGS.hasOwnProperty(tag)
hasOwnProperty(tag) == tag \in TAGS

\* One entry of the tag table: tag and tagOffset are read, the tag is
\* looked up, the position is saved and the cursor moved to the payload.
HdrEntry(e, h) ==
  LET t == readString(e, 4)
      o == getUint32(t.editor)
      read == [h EXCEPT !.tag = t.data, !.tagOffset = o.data,
                        !.read = @ + 1]
      saveOffset == tell(o.editor).data
  IN  IF t.thrown # "" THEN HdrThrow(t.editor, h, t.thrown)
      ELSE IF o.thrown # "" THEN HdrThrow(o.editor, h, o.thrown)
      ELSE IF ~hasOwnProperty(t.data)
      THEN HdrThrow(o.editor, read, "Unknown Base Font Header TAG")
      ELSE HdrStep(seek(o.editor, h.dataStart + Num(o.data)).editor,
                   [read EXCEPT !.saveOffset = saveOffset,
                                !.phase = "handler"])

\* The handler is called and the cursor moved back to the saved position.
\* r is what the handler left.
HdrHandled(r, called) ==
  IF r.thrown # "" THEN HdrThrow(r.editor, called, r.thrown)
  ELSE HdrStep(seek(r.editor, called.saveOffset).editor,
               [called EXCEPT !.results = r.fileInfo, !.i = @ + 1,
                              !.phase = "entry"])

HdrHandler(e, h) ==
  HdrHandled(CallTag(h.tag, e, h.results),
             [h EXCEPT !.calls = Append(@, [tag |-> h.tag,
                                            offset_ |-> e.offset_])])

\* return results
HdrReturn(e, h) ==
  HdrStep(e, [h EXCEPT !.phase = "done", !.returned = <<h.results>>])

HdrNext(e, h) ==
  CASE h.phase = "magic" -> HdrMagic(e, h)
    [] h.phase = "version" -> HdrVersion(e, h)
    [] h.phase = "count" -> HdrCount(e, h)
    [] h.phase = "entry" /\ h.i < h.count -> HdrEntry(e, h)
    [] h.phase = "entry" /\ h.i >= h.count -> HdrReturn(e, h)
    [] h.phase = "handler" -> HdrHandler(e, h)
    [] OTHER -> HdrStep(e, h)

\* The phases from the step n on, until the call returns or throws.
RECURSIVE HdrRun(_)
HdrRun(n) ==
  IF n.hdr.phase \in {"done", "thrown"} THEN n
  ELSE HdrRun(HdrNext(n.editor, n.hdr))

\* parseBaseHeader as one call: data is the sequence of the records
\* returned (empty when the call throws).
HdrOutcome(r) == Outcome(r.editor, r.hdr.returned, -1, r.hdr.thrown)

parseBaseHeader(e) == HdrOutcome(HdrRun(HdrStep(e, HdrBegin)))

-----------------------------------------------------------------------------
(* The header specifications: one call of parseBaseHeader on an editor     *)
(* whose DataView holds a header: magic, headSize, version, count, the tag *)
(* table and the payloads.                                                 *)

\* Largest number of entries of the tag table.
MaxTags == 2

\* Largest number of entries of the tag table of the CCMP headers.
MaxCcmpTags == 3

\* 'XXAC'
BadMagic == <<88, 88, 65, 67>>

\* 'ZZZZ'
TagZZZZ == <<90, 90, 90, 90>>

\* A format 12 segment as three uint32.
Seg12Bytes(startCode, length, gid) ==
  Bytes32(ToWord(startCode)) \o Bytes32(ToWord(length)) \o Bytes32(ToWord(gid))

\* The payload of CCMP: two GOS tables, one of type 5 with the segments
\* 'A'-'C' -> 10-12 and 'a'-'c' -> 40-42, one of type 4 with the lengths
\* 2 and 0.
CcmpPayload ==
  <<2>> \o <<5, 0, 2>> \o Seg12Bytes(65, 3, 10) \o Seg12Bytes(97, 3, 40)
        \o <<4, 0, 2, 128>>

\* The payloads, in the order they follow the tag table: bytes 0-19 hold
\* the numbers of GLCN, HMMC, VMMC, LCFM, GLOF, LCOF, HMOF, VMOF, CM12 and
\* CM04, then CCMP (20), TYPE (52), CS02 (53) and SHA1 (63).
Payloads ==
  <<0, 5, 1, 2, 0, 0, 1, 0, 0, 0, 0, 2, 0, 0, 2, 0, 0, 0, 0, 64>>
  \o CcmpPayload \o <<1>> \o <<0, 0, 3, 0, 6, 0, 2, 10, 249, 5>>
  \o [k \in 1..40 |-> 48 + (k % 10)]

TagEntry(tag, offset) == [tag |-> tag, offset |-> offset]

\* The entries of the tag tables: every tag of TAGS at its payload, GLCN
\* at a second payload, a tag that TAGS does not hold and an offset past
\* the end of the DataView.
HeaderEntries ==
  {TagEntry(TagGLOF, 4), TagEntry(TagGLCN, 0), TagEntry(TagGLCN, 2),
   TagEntry(TagLCOF, 8), TagEntry(TagLCFM, 3), TagEntry(TagHMOF, 12),
   TagEntry(TagVMOF, 16), TagEntry(TagHMMC, 2), TagEntry(TagVMMC, 6),
   TagEntry(TagTYPE, 52), TagEntry(TagCM12, 4), TagEntry(TagCM04, 12),
   TagEntry(TagCCMP, 20), TagEntry(TagCS02, 53), TagEntry(TagSHA1, 63),
   TagEntry(TagZZZZ, 0), TagEntry(TagHMOF, 200)}

\* The entries of the tag tables of the CCMP headers.
CcmpHeaderEntries ==
  {TagEntry(TagCM12, 4), TagEntry(TagCM04, 12), TagEntry(TagCCMP, 20),
   TagEntry(TagGLCN, 0)}

\* The versions: Words, the last one the int32 -1.
HeaderVersions == {Word(0, 1), Word(0, 2), Word(65535, 65535)}

\* The 8 bytes of each entry of a tag table.
EntryBytes(entries) ==
  [k \in 1..Len(entries) |->
     entries[k].tag \o Bytes32(ToWord(entries[k].offset))]

\* The bytes of a header.
HeaderBytes(magic, version, entries) ==
  LET table == Flatten(EntryBytes(entries))
  IN  magic \o Bytes32(ToWord(14 + Len(table) + Len(Payloads)))
            \o Bytes32(version) \o Bytes16(Len(entries)) \o table \o Payloads

\* A call of parseBaseHeader on a new editor.
InitParse(bytes, baseOffset) ==
  /\ editor = NewEditor(SubSeq(<<0, 0>>, 1, baseOffset) \o bytes, baseOffset)
  /\ hdr = HdrBegin
  /\ pc = "hdr"
  /\ log = <<>> /\ gos = Unused /\ ccmp = Unused

InitHeader ==
  \E magic \in {magicHead, BadMagic}, version \in HeaderVersions,
     n \in 0..MaxTags, baseOffset \in {0, 1} :
    \E entries \in [1..n -> HeaderEntries] :
      InitParse(HeaderBytes(magic, version, entries), baseOffset)

InitHeaderCCMP ==
  \E n \in 0..MaxCcmpTags :
    \E entries \in [1..n -> CcmpHeaderEntries] :
      InitParse(HeaderBytes(magicHead, Word(0, BASE_VERSION), entries), 0)

HdrApply(n) ==
  /\ editor' = n.editor
  /\ hdr' = n.hdr
  /\ UNCHANGED <<pc, log, gos, ccmp>>

ParseMagic ==
  /\ pc = "hdr" /\ hdr.phase = "magic"
  /\ HdrApply(HdrMagic(editor, hdr))

ParseVersion ==
  /\ pc = "hdr" /\ hdr.phase = "version"
  /\ HdrApply(HdrVersion(editor, hdr))

ParseCount ==
  /\ pc = "hdr" /\ hdr.phase = "count"
  /\ HdrApply(HdrCount(editor, hdr))

ParseEntry ==
  /\ pc = "hdr" /\ hdr.phase = "entry" /\ hdr.i < hdr.count
  /\ HdrApply(HdrEntry(editor, hdr))

ParseHandler ==
  /\ pc = "hdr" /\ hdr.phase = "handler"
  /\ HdrApply(HdrHandler(editor, hdr))

ParseReturn ==
  /\ pc = "hdr" /\ hdr.phase = "entry" /\ hdr.i >= hdr.count
  /\ HdrApply(HdrReturn(editor, hdr))

NextHeader ==
  \/ ParseMagic \/ ParseVersion \/ ParseCount
  \/ ParseEntry \/ ParseHandler \/ ParseReturn

SpecHeader == InitHeader /\ [][NextHeader]_vars

SpecHeaderCCMP == InitHeaderCCMP /\ [][NextHeader]_vars

(* The header as its bytes say it, read from the DataView without the     *)
(* cursor.  Entries of the tag table are numbered from 0.                  *)

HeaderAddress(a) == editor.baseOffset_ + a

HeaderChars(a) ==
  [k \in 1..4 |-> ByteAt(editor.dataView_, HeaderAddress(a) + k - 1)]

MagicOf == HeaderChars(0)

VersionOf == ViewInt32(editor.dataView_, HeaderAddress(8))

CountOf == ViewUint16(editor.dataView_, HeaderAddress(12))

TagOf(k) == HeaderChars(14 + 8 * k)

OffsetOf(k) == Num(ViewUint32(editor.dataView_, HeaderAddress(14 + 8 * k + 4)))

\* The 14 tags of the header format.
RecognizedTags ==
  {TagGLOF, TagGLCN, TagLCOF, TagLCFM, TagHMOF, TagVMOF, TagHMMC, TagVMMC,
   TagTYPE, TagCM12, TagCM04, TagCCMP, TagCS02, TagSHA1}

\* The call has failed: it has thrown and returned no record.
HeaderFailed == hdr.phase = "thrown" /\ hdr.returned = <<>>

\* C1: parseBaseHeader fails on a magic other than 'BSAC' before it reads
\* an entry of the tag table or invokes a handler; it fails on a version
\* other than 1; it fails on an entry whose tag is not recognized without
\* invoking a handler for that entry; it returns no record in these cases.
HeaderRejected ==
  /\ (MagicOf # <<66, 83, 65, 67>> /\ hdr.phase # "magic")
       => HeaderFailed /\ hdr.read = 0 /\ hdr.calls = <<>>
  /\ (VersionOf # 1 /\ hdr.phase \notin {"magic", "version"})
       => HeaderFailed /\ hdr.read = 0 /\ hdr.calls = <<>>
  /\ \A k \in 0..(CountOf - 1) :
       (TagOf(k) \notin RecognizedTags /\ hdr.read > k)
         => HeaderFailed /\ hdr.read = k + 1 /\ Len(hdr.calls) = k
  /\ hdr.phase = "thrown" => hdr.returned = <<>>

\* The second entry of the tag table holds an unrecognized tag: the call
\* has thrown after one handler, that of the first entry.
HeaderRejectedWitness ==
  /\ hdr.thrown = "Unknown Base Font Header TAG"
  /\ hdr.read = 2 /\ Len(hdr.calls) = 1
  /\ TagOf(0) = TagCM12 /\ TagOf(1) \notin RecognizedTags
  /\ hdr.returned = <<>>

\* C2 as stated: every handler is invoked with the cursor at
\* count * 8 + 12 + offset, offset the 32-bit offset of its entry.
HandlerAtCountTimes8Plus12 ==
  \A k \in 1..Len(hdr.calls) :
    hdr.calls[k].offset_ = CountOf * 8 + 12 + OffsetOf(k - 1)

\* C2 with the 14 bytes that precede the tag table (magic 4, headSize 4,
\* version 4, count 2): every handler is invoked with the cursor at
\* count * 8 + 14 + offset.
HandlerAtCountTimes8Plus14 ==
  \A k \in 1..Len(hdr.calls) :
    /\ hdr.calls[k].tag = TagOf(k - 1)
    /\ hdr.calls[k].offset_ = CountOf * 8 + 14 + OffsetOf(k - 1)

\* Two handlers have been invoked, SHA1 and GLCN, at 30 + 63 and 30 + 2.
HandlerPositionWitness ==
  /\ hdr.phase = "done" /\ Len(hdr.calls) = 2
  /\ TagOf(0) = TagSHA1 /\ hdr.calls[1].offset_ = 93
  /\ TagOf(1) = TagGLCN /\ hdr.calls[2].offset_ = 32

\* The permutations of 1..n.
Orders(n) ==
  {f \in [1..n -> 1..n] : \A j, k \in 1..n : j # k => f[j] # f[k]}

\* The DataView with the entries of the tag table in the order f.
Reordered(f) ==
  LET dv == editor.dataView_
      table == HeaderAddress(14)
  IN  SubSeq(dv, 1, table)
      \o Flatten([k \in 1..CountOf |->
                    SubSeq(dv, table + 8 * (f[k] - 1) + 1, table + 8 * f[k])])
      \o SubSeq(dv, table + 8 * CountOf + 1, Len(dv))

\* The call has returned, and on the same entries in any other order it
\* returns the same record.
SameInAnyOrder ==
  \A f \in Orders(CountOf) :
    parseBaseHeader(NewEditor(Reordered(f), editor.baseOffset_)).data
      = hdr.returned

NoCCMP == \A k \in 0..(CountOf - 1) : TagOf(k) # TagCCMP

DistinctTags ==
  \A j, k \in 0..(CountOf - 1) : j # k => TagOf(j) # TagOf(k)

\* Each handler starts at its own payload, and the cursor is back just
\* after the entry before the next entry is read.
CursorRestored ==
  /\ hdr.phase = "handler"
       => editor.offset_ = 14 + 8 * CountOf + OffsetOf(hdr.i)
  /\ hdr.phase = "entry" => editor.offset_ = 14 + 8 * hdr.i

\* C3 as stated: a header without a CCMP tag yields the same record in
\* whatever order its tag table holds its entries; each handler starts at
\* its payload and the cursor is restored after it.
TagOrderIndependence ==
  /\ (hdr.phase = "done" /\ NoCCMP) => SameInAnyOrder
  /\ CursorRestored

\* C3 for tag tables without CCMP that hold no tag more than once.
TagOrderIndependenceDistinct ==
  /\ (hdr.phase = "done" /\ NoCCMP /\ DistinctTags) => SameInAnyOrder
  /\ CursorRestored

\* A header with SHA1 before CM04, against the order of their payloads,
\* has been parsed.
TagOrderWitness ==
  /\ hdr.phase = "done" /\ CountOf = 2
  /\ TagOf(0) = TagSHA1 /\ TagOf(1) = TagCM04
  /\ DOMAIN hdr.returned[1]
       = {"headSize", "version", "sha1_fingerprint", "cmap4"}

\* The tag table holds an entry with this tag.
HasTag(tag) == \E k \in 0..(CountOf - 1) : TagOf(k) = tag

\* The tag table holds a CCMP entry whose payload holds two GOS tables,
\* the second of type 4.
HasCCMPOfTwoTables ==
  \E k \in 0..(CountOf - 1) :
    /\ TagOf(k) = TagCCMP
    /\ LET a == HeaderAddress(14 + 8 * CountOf + OffsetOf(k))
       IN  SubSeq(editor.dataView_, a + 1, a + Len(CcmpPayload)) = CcmpPayload

\* C4: with CM12, CM04 and such a CCMP entry in the tag table, in whatever
\* order, the record returned holds compact_gos.cmap4.
CCMPReconstructsInAnyOrder ==
  (hdr.phase = "done" /\ HasTag(TagCM12) /\ HasTag(TagCM04)
     /\ HasCCMPOfTwoTables)
    => /\ "compact_gos" \in DOMAIN hdr.returned[1]
       /\ "cmap4" \in DOMAIN hdr.returned[1]["compact_gos"]

\* C4 for a CCMP entry that stands last: the format 4 table is there.
CCMPReconstructsWhenLast ==
  (hdr.phase = "done" /\ CountOf = 3 /\ HasTag(TagCM12) /\ HasTag(TagCM04)
     /\ TagOf(2) = TagCCMP)
    => hdr.returned[1]["compact_gos"]["cmap4"].segments
         = <<<<65, 99, 0, 4>>, <<65535, 65535, 1, 0>>>>

-----------------------------------------------------------------------------
(* The extras specification: one call of readExtraArray, one pass of its   *)
(* outer loop per step.  gos holds the locals of the call: reader (the     *)
(* closure of nibbleReader), extraLen, extraArray, i, start (offset_ when  *)
(* the call began) and phase, "loop", "done" or "thrown".                  *)

\* Largest extraLen, and largest number of values a nibble stream encodes.
MaxExtras == 2

\* The magnitude nibbles of the inputs: two patterns of a given length, the
\* first starting with the nibble 10, the second with the nibble 6.
MagnitudeA(length) == [k \in 1..length |-> (k * 7 + 3) % 16]

MagnitudeB(length) == [k \in 1..length |-> (k * 5 + 1) % 16]

\* The nibbles of one encoded value with the header nibble n.
ValueNibbles(n, high) ==
  LET length == IF n < 8 THEN n + 1 ELSE n - 7
  IN  <<n>> \o (IF high THEN MagnitudeA(length) ELSE MagnitudeB(length))

\* Every header nibble 0..15 with both patterns.
EncodedValues == {ValueNibbles(n, high) : n \in 0..15, high \in BOOLEAN}

\* The values that come before the last one of a stream: +6, -0xA1 and
\* +0x6B0.
LeadingValues == {<<0, 6>>, <<9, 10, 1>>, <<2, 6, 11, 0>>}

\* The nibble streams: up to MaxExtras values, the last one any of
\* EncodedValues.
NibbleStreams ==
  {<<>>} \cup
  UNION {{Flatten(lead) \o last :
            lead \in [1..n -> LeadingValues], last \in EncodedValues} :
         n \in 0..(MaxExtras - 1)}

\* The bytes of a nibble stream, high nibble first; a stream of odd length
\* is filled with the nibble 10.
PackNibbles(ns) ==
  [k \in 1..((Len(ns) + 1) \div 2) |->
     ns[2 * k - 1] * 16 + (IF 2 * k <= Len(ns) THEN ns[2 * k] ELSE 10)]

ExtraBegin(e, extraLen) ==
  [reader |-> nibbleReader(e), extraLen |-> extraLen, extraArray |-> <<>>,
   i |-> 0, start |-> e.offset_, phase |-> "loop"]

InitExtra ==
  /\ \E ns \in NibbleStreams, extraLen \in 0..MaxExtras, at \in {0, 1} :
       LET e == NewEditor([k \in 1..(3 * at) |-> 171] \o PackNibbles(ns), at)
       IN  /\ editor = seek(e, 2 * at).editor
           /\ gos = ExtraBegin(seek(e, 2 * at).editor, extraLen)
  /\ pc = "extra"
  /\ log = <<>> /\ hdr = Unused /\ ccmp = Unused

\* r is what one pass of the outer loop leaves.
ExtraPass(r, x) ==
  [x EXCEPT !.reader = r.reader, !.extraArray = r.extraArray, !.i = @ + 1,
            !.phase = IF r.reader.thrown # "" THEN "thrown" ELSE "loop"]

ExtraApply(x) ==
  /\ gos' = x
  /\ editor' = x.reader.editor
  /\ UNCHANGED <<pc, log, hdr, ccmp>>

ReadExtraValue ==
  /\ pc = "extra" /\ gos.phase = "loop" /\ gos.i < gos.extraLen
  /\ ExtraApply(ExtraPass(ReadExtras(gos.reader, 1, gos.extraArray), gos))

ReadExtraReturn ==
  /\ pc = "extra" /\ gos.phase = "loop" /\ gos.i >= gos.extraLen
  /\ ExtraApply([gos EXCEPT !.phase = "done"])

NextExtra == ReadExtraValue \/ ReadExtraReturn

SpecExtra == InitExtra /\ [][NextExtra]_vars

(* The nibble stream as the bytes say it, read from the DataView without  *)
(* the reader.  Nibbles and values are numbered from 0.                    *)

\* Nibble k of the stream that starts at the byte the cursor was on.
NibbleAt(k) ==
  LET b == ByteAt(editor.dataView_,
                  editor.baseOffset_ + gos.start + k \div 2)
  IN  IF k % 2 = 0 THEN b \div 16 ELSE b % 16

\* The number of magnitude nibbles after the header nibble n.
MagnitudeCount(n) == IF n < 8 THEN n + 1 ELSE n - 7

SignOf(n) == IF n < 8 THEN 1 ELSE -1

\* The nibble number of the header nibble of value j.
RECURSIVE HeaderNibble(_)
HeaderNibble(j) ==
  IF j = 0 THEN 0
  ELSE HeaderNibble(j - 1) + 1 + MagnitudeCount(NibbleAt(HeaderNibble(j - 1)))

\* The unsigned number of the length <= 4 nibbles from nibble first on,
\* in big-endian order.
RECURSIVE NibbleNumber(_, _)
NibbleNumber(first, length) ==
  IF length <= 0 THEN 0
  ELSE NibbleNumber(first, length - 1) * 16 + NibbleAt(first + length - 1)

\* The unsigned magnitude of value j as a Word: its low four nibbles and
\* the nibbles above them.
MagnitudeOf(j) ==
  LET h == HeaderNibble(j)
      length == MagnitudeCount(NibbleAt(h))
      above == IF length > 4 THEN length - 4 ELSE 0
  IN  Word(NibbleNumber(h + 1, above),
           NibbleNumber(h + 1 + above, length - above))

\* The number v is the sign of value j times its unsigned magnitude.  No
\* number of the array is beyond 2^31 in size, so a magnitude of 2^31 or
\* more is the magnitude of none.
IsValue(v, j) ==
  /\ MagnitudeOf(j).hi < 32768
  /\ v = SignOf(NibbleAt(HeaderNibble(j))) * Num(MagnitudeOf(j))

\* The cursor has advanced by the bytes of the nibbles read, rounded up.
CursorAfterNibbles ==
  editor.offset_ = gos.start + (HeaderNibble(gos.extraLen) + 1) \div 2

\* C11: readExtraArray(count) returns count integers, each the sign times
\* the unsigned big-endian number of its magnitude nibbles, for every
\* header nibble 0..15, and leaves the cursor advanced by
\* ceil(nibbles read / 2) bytes.
ExtraArrayDecoded ==
  (pc = "extra" /\ gos.phase = "done")
    => /\ Len(gos.extraArray) = gos.extraLen
       /\ \A j \in 0..(gos.extraLen - 1) : IsValue(gos.extraArray[j + 1], j)
       /\ CursorAfterNibbles

\* C11 for the values whose magnitude is below 2^31.
ExtraArrayDecodedBelowSignBit ==
  (pc = "extra" /\ gos.phase = "done")
    => /\ Len(gos.extraArray) = gos.extraLen
       /\ \A j \in 0..(gos.extraLen - 1) :
            MagnitudeOf(j).hi < 32768 => IsValue(gos.extraArray[j + 1], j)
       /\ CursorAfterNibbles

-----------------------------------------------------------------------------
(* The CCMP store specification: the reconstruction as in the CCMP         *)
(* specification, followed by the end of the handler.  hdr holds the       *)
(* locals of the parseBaseHeader that called the handler; its results hold *)
(* cmap4 and cmap12, the handlers CM04 and CM12 have run.  When the        *)
(* reconstruction throws, the handler and parseBaseHeader throw with it.   *)

\* The type 4 lengths with a zero at the end, before the end, at both
\* places, alone, and without a zero.
ZeroLengths ==
  {<<1, 0>>, <<2, 0>>, <<0>>, <<0, 1>>, <<1, 0, 1>>, <<1, 0, 0>>, <<0, 0>>,
   <<1, 1>>, <<2, 1, 0>>}

\* results after CM12 and CM04.
ResultsWithCmaps ==
  Put(Put(EmptyObject, "cmap12",
          [offset |-> Word(0, 256), nGroups |-> Word(0, 2)]),
      "cmap4", [offset |-> Word(0, 512), length |-> Word(0, 64)])

InitCCMPStore ==
  /\ \E n \in 0..MaxSegs12 :
       \E segments \in [1..n -> Fmt12Segments], lens \in ZeroLengths :
         ccmp = CcmpBegin(GosOf(5, segments), GosOf(4, lens))
  /\ pc = "ccmp"
  /\ hdr = [HdrBegin EXCEPT !.results = ResultsWithCmaps, !.tag = TagCCMP,
                            !.phase = "handler"]
  /\ editor = NewEditor(<<>>, 0) /\ log = <<>> /\ gos = Unused

\* compact_gos is stored in results and the handler returns.
CCMPStore ==
  /\ pc = "ccmp" /\ ccmp.phase = "done"
  /\ hdr' = HdrHandled(CcmpReconstructed(ccmp, editor, hdr.results,
                                         ccmp.gos_type_12), hdr).hdr
  /\ pc' = "ccmpStored"
  /\ UNCHANGED <<editor, log, gos, ccmp>>

\* The exception of the reconstruction leaves the handler and
\* parseBaseHeader.
CCMPThrow ==
  /\ pc = "ccmp" /\ ccmp.phase = "thrown"
  /\ hdr' = HdrHandled(Handled(editor, hdr.results, ccmp.thrown), hdr).hdr
  /\ pc' = "ccmpThrown"
  /\ UNCHANGED <<editor, log, gos, ccmp>>

NextCCMPStore ==
  \/ CCMPEntry \/ CCMPWalk \/ CCMPWalkEnd \/ CCMPEnd
  \/ CCMPStore \/ CCMPThrow

SpecCCMPStore == InitCCMPStore /\ [][NextCCMPStore]_vars

\* The index of the last entry of the type 4 lengths.
FinalIndex == ccmp.fmt4SegCount - 1

\* Nothing of the compact cmap is in the metadata record, and no record
\* has been returned.
NothingStored ==
  /\ ~Has(hdr.results, "compact_gos")
  /\ hdr.returned = <<>>
  /\ pc # "ccmpStored"

\* The sum of the run lengths before entry j.
RECURSIVE LengthsBefore(_)
LengthsBefore(j) ==
  IF j = 0 THEN 0 ELSE LengthsBefore(j - 1) + RunLength(j - 1)

\* C12: a run length 0 at the final index appends the segment
\* [0xFFFF, 0xFFFF, 1, 0] and consumes no format 12 segment; a run length
\* 0 at another index makes the reconstruction fail, and no compact cmap
\* is stored in the metadata record.
ZeroRunLength ==
  /\ (FinalIndex >= 0 /\ RunLength(FinalIndex) = 0 /\ ccmp.i > FinalIndex)
       => /\ ccmp.format_4_arrays[FinalIndex + 1] = <<65535, 65535, 1, 0>>
          /\ Len(ccmp.format_4_arrays) = ccmp.fmt4SegCount
          /\ ccmp.fmt12SegNum = LengthsBefore(FinalIndex)
  /\ \A j \in 0..(FinalIndex - 1) :
       RunLength(j) = 0
         => /\ ccmp.i <= j
            /\ ccmp.phase # "done"
            /\ NothingStored
            /\ (ccmp.i = j /\ ccmp.phase # "entry")
                 => ccmp.phase = "thrown" /\ ccmp.thrown = "invalid segment"
            /\ (ccmp.i = j /\ pc # "ccmp")
                 => pc = "ccmpThrown" /\ hdr.phase = "thrown"

\* The lengths 1, 0, 1: the first entry has been reconstructed, the zero
\* at index 1 has made the reconstruction and the parse fail.
ZeroRunLengthWitness ==
  /\ pc = "ccmpThrown" /\ ccmp.thrown = "invalid segment"
  /\ ccmp.gos_type_4_lens.segments = <<1, 0, 1>> /\ ccmp.i = 1
  /\ Len(ccmp.format_4_arrays) = 1
  /\ hdr.phase = "thrown" /\ NothingStored

-----------------------------------------------------------------------------
(* The CCMP walk specification: the reconstruction on format 12 segments   *)
(* of any kind, those with a negative length (an escaped length of a table *)
(* of type 2 or 3) included, and on type 4 lengths with runs of more than  *)
(* one segment.  log holds the length glyphIdArray had when the loop over  *)
(* the code points was entered last.  The loops of the code run on without *)
(* interruption, so a step that can be taken is taken.                     *)

\* The format 12 segments [startCode, length, gid]: adjacent ones, ones
\* with a gap between them, an empty one, one that overlaps others and one
\* of negative length.
WalkSegments ==
  {<<10, 2, 40>>, <<12, 3, 3>>, <<17, 2, 50>>, <<20, 0, 7>>, <<10, 5, 100>>,
   <<14, -2, 9>>}

\* The type 4 lengths: runs of 2 and 3 segments, first, last and repeated.
WalkLengths == {<<2, 0>>, <<3, 0>>, <<2, 2>>, <<1, 2, 0>>, <<2, 1, 0>>}

InitCCMPWalk ==
  /\ \E n \in 0..MaxSegs12 :
       \E segments \in [1..n -> WalkSegments], lens \in WalkLengths :
         ccmp = CcmpBegin(GosOf(2, segments), GosOf(4, lens))
  /\ pc = "ccmpWalk"
  /\ editor = Unused /\ log = <<>> /\ hdr = Unused /\ gos = Unused

WalkApply(c) ==
  /\ ccmp' = c
  /\ log' = IF ccmp.phase = "entry" /\ c.phase = "walk"
            THEN <<Len(ccmp.glyphIdArray)>> ELSE log
  /\ UNCHANGED <<editor, pc, hdr, gos>>

RunEntry ==
  /\ pc = "ccmpWalk" /\ ccmp.phase = "entry" /\ ccmp.i < ccmp.fmt4SegCount
  /\ WalkApply(CcmpEntry(ccmp))

RunWalk ==
  /\ pc = "ccmpWalk" /\ ccmp.phase = "walk" /\ ccmp.codePoint <= ccmp.endCode
  /\ WalkApply(CcmpWalk(ccmp))

RunWalkEnd ==
  /\ pc = "ccmpWalk" /\ ccmp.phase = "walk" /\ ccmp.codePoint > ccmp.endCode
  /\ WalkApply(CcmpWalkEnd(ccmp))

RunEnd ==
  /\ pc = "ccmpWalk" /\ ccmp.phase = "entry" /\ ccmp.i >= ccmp.fmt4SegCount
  /\ WalkApply(CcmpEnd(ccmp))

NextCCMPWalk == RunEntry \/ RunWalk \/ RunWalkEnd \/ RunEnd

SpecCCMPWalk ==
  InitCCMPWalk /\ [][NextCCMPWalk]_vars /\ WF_vars(NextCCMPWalk)

\* The current segment is one of the run.
WithinRun ==
  ccmp.phase = "walk"
    => /\ ccmp.currentSeg >= ccmp.fmt12SegNumBegin
       /\ ccmp.currentSeg <= ccmp.fmt12SegNumEnd
       /\ ccmp.currentSegArr = ccmp.gos_type_12.segments[ccmp.currentSeg + 1]

\* A pass of the loop advances the code point and appends one glyph id,
\* or advances the current segment and appends none.
WalkAdvances ==
  (ccmp.phase = "walk" /\ ccmp'.phase = "walk")
    => \/ /\ ccmp'.codePoint = ccmp.codePoint + 1
          /\ ccmp'.currentSeg = ccmp.currentSeg
          /\ Len(ccmp'.glyphIdArray) = Len(ccmp.glyphIdArray) + 1
       \/ /\ ccmp'.codePoint = ccmp.codePoint
          /\ ccmp'.currentSeg = ccmp.currentSeg + 1
          /\ ccmp'.glyphIdArray = ccmp.glyphIdArray

\* When the loop is left, endCode - startCode + 1 glyph ids have been
\* appended since it was entered, or the reconstruction fails with the
\* length mismatch.
WalkExit ==
  (ccmp.phase = "walk" /\ ccmp'.phase # "walk")
    => \/ /\ ccmp'.phase = "entry"
          /\ Len(ccmp'.glyphIdArray) - log[1]
               = ccmp.endCode - ccmp.startCode + 1
       \/ /\ ccmp'.phase = "thrown"
          /\ ccmp'.thrown = "glyphIdArray update failure"

\* C13: the loop over the code points of a run of more than one segment
\* terminates for any segment values: every pass advances the code point
\* or the current segment, the current segment stays within the run, and
\* on exit endCode - startCode + 1 glyph ids were appended or the
\* reconstruction fails with the length mismatch.
WalkTerminates ==
  /\ []WithinRun
  /\ [][WalkAdvances /\ WalkExit]_vars
  /\ (ccmp.phase = "walk") ~> (ccmp.phase # "walk")

\* A run of three segments, the middle one of negative length, has been
\* walked: 9 glyph ids for the code points 10..18, then the end segment.
WalkTerminatesWitness ==
  /\ pc = "ccmpWalk" /\ ccmp.phase = "done"
  /\ ccmp.gos_type_12.segments = <<<<10, 2, 40>>, <<14, -2, 9>>, <<17, 2, 50>>>>
  /\ ccmp.gos_type_4_lens.segments = <<3, 0>>
  /\ ccmp.glyphIdArray = <<40, 41, 0, 0, 0, 0, 0, 50, 51>>
  /\ ccmp.format_4_arrays = <<<<10, 18, 0, 4>>, <<65535, 65535, 1, 0>>>>

=============================================================================
